---- MODULE Spec2Model ----
(***************************************************************************)
(* StayLive review-ingestion pipeline.                                     *)
(*                                                                         *)
(* Two scripts write issue records ("reports"): the general ingestion      *)
(* script (scripts/ingest-hotel-data.ts, kept here as src/unnamed/part_002)*)
(* and the top-hotels script (src/scripts/ingest-top-hotels.ts).  Both     *)
(* walk a list of hotels, fetch reviews, and for each review run           *)
(* checkExistingReport -> shouldBeAnonymous -> transformReviewToSafety-    *)
(* Insight -> upsertReport.                                                *)
(*                                                                         *)
(* Text is modelled as a sequence of one-character strings, so that        *)
(* toLowerCase, trim, slice, the brace regex and JSON.parse are computed   *)
(* and not assumed.                                                        *)
(***************************************************************************)
EXTENDS Integers, Sequences, FiniteSets, TLC

\* ---------------------------------------------------------------------------
\* Bounds of the model
\* ---------------------------------------------------------------------------

\* longest category string the language model is made to return (TransformSpec)
MaxKeyLen == 3

\* reviews each provider location returns
NumReviews == 2

\* failed store calls and failed review-provider calls the environment may inject
MaxFaults == 1

\* longest review list enumerated for the filter
MaxInputLen == 3

\* command-line arguments given to the general script
MaxArgs == 2

\* longest place id and review id enumerated for the external ids
MaxIdLen == 2

\* longest run of letters in an entered display name
MaxNickLetters == 8

\* ---------------------------------------------------------------------------
\* Text
\* ---------------------------------------------------------------------------

Min(a, b) == IF a < b THEN a ELSE b

\* String.prototype.toLowerCase on one character
LowerChar(c) ==
  CASE c = "A" -> "a"
    [] c = "C" -> "c"
    [] c = "W" -> "w"
    [] c = "I" -> "i"
    [] c = "F" -> "f"
    [] c = "R" -> "r"
    [] c = "T" -> "t"
    [] c = "L" -> "l"
    [] OTHER -> c

ToLowerCase(s) == [i \in 1..Len(s) |-> LowerChar(s[i])]

IsSpace(c) == c \in {" ", "\t", "\n"}

RECURSIVE TrimStart(_)
TrimStart(s) ==
  IF s # <<>> /\ IsSpace(Head(s)) THEN TrimStart(Tail(s)) ELSE s

RECURSIVE TrimEnd(_)
TrimEnd(s) ==
  IF s # <<>> /\ IsSpace(s[Len(s)]) THEN TrimEnd(SubSeq(s, 1, Len(s) - 1)) ELSE s

\* String.prototype.trim
Trim(s) == TrimEnd(TrimStart(s))

\* String.prototype.slice(0, n)
Slice0(s, n) == SubSeq(s, 1, Min(Len(s), n))

\* one-token text: a fixed sentence of the source, never inspected by characters
Sentence(t) == <<t>>

\* ---------------------------------------------------------------------------
\* Issue keys
\* ---------------------------------------------------------------------------

KeyPower == <<"p", "o", "w", "e", "r">>
KeyConstruction == <<"c", "o", "n", "s", "t", "r", "u", "c", "t", "i", "o", "n">>
KeyWater == <<"w", "a", "t", "e", "r">>
KeyWifi == <<"w", "i", "f", "i">>
KeyAc == <<"a", "c">>
KeyElevator == <<"e", "l", "e", "v", "a", "t", "o", "r">>
KeyNoise == <<"n", "o", "i", "s", "e">>
KeyPool == <<"p", "o", "o", "l">>
KeyRestaurant == <<"r", "e", "s", "t", "a", "u", "r", "a", "n", "t">>
KeyCleaning == <<"c", "l", "e", "a", "n", "i", "n", "g">>
KeyOther == <<"o", "t", "h", "e", "r">>

VALID_ISSUE_KEYS ==
  { KeyPower, KeyConstruction, KeyWater, KeyWifi, KeyAc, KeyElevator,
    KeyNoise, KeyPool, KeyRestaurant, KeyCleaning, KeyOther }

SevCritical == <<"c", "r", "i", "t", "i", "c", "a", "l">>
SevWarning == <<"w", "a", "r", "n", "i", "n", "g">>

\* ---------------------------------------------------------------------------
\* JSON values, as JSON.parse hands them to the transformer
\* ---------------------------------------------------------------------------

\* t: "undef" (field absent), "null", "num", "str"; s: the characters of a string
JUndef == [t |-> "undef", s |-> <<>>]
JNull == [t |-> "null", s |-> <<>>]
JNum == [t |-> "num", s |-> <<"5">>]
JStr(s) == [t |-> "str", s |-> s]

\* JavaScript truthiness of a parsed value (the number modelled is 5)
Truthy(v) == v.t = "num" \/ (v.t = "str" /\ v.s # <<>>)

EmptyObject == [insight |-> JUndef, issueKey |-> JUndef, severity |-> JUndef]

\* Tokens of the model's reply: "{", "}", ",", the quote Q, the three member
\* names followed by their colon, the literals 5 and null, and plain characters.
Q == "\""
MemberNames == {"insight:", "issueKey:", "severity:"}

SetMember(obj, name, v) ==
  CASE name = "insight:" -> [obj EXCEPT !.insight = v]
    [] name = "issueKey:" -> [obj EXCEPT !.issueKey = v]
    [] name = "severity:" -> [obj EXCEPT !.severity = v]

\* index of the first occurrence of c in s at or after position i, 0 if none
IndexFrom(s, c, i) ==
  LET hits == {j \in i..Len(s) : s[j] = c}
  IN IF hits = {} THEN 0 ELSE CHOOSE j \in hits : \A h \in hits : j <= h

\* index of the last occurrence of c in s at or before position i, 0 if none
LastIndexFrom(s, c, i) ==
  LET hits == {j \in 1..i : s[j] = c}
  IN IF hits = {} THEN 0 ELSE CHOOSE j \in hits : \A h \in hits : j >= h

\* one JSON value at the head of toks: [ok, v, rest]
ParseValue(toks) ==
  IF toks = <<>> THEN [ok |-> FALSE, v |-> JUndef, rest |-> <<>>]
  ELSE IF Head(toks) = "5" THEN [ok |-> TRUE, v |-> JNum, rest |-> Tail(toks)]
  ELSE IF Head(toks) = "null" THEN [ok |-> TRUE, v |-> JNull, rest |-> Tail(toks)]
  ELSE IF Head(toks) = Q
    THEN LET close == IndexFrom(toks, Q, 2)
         IN IF close = 0 THEN [ok |-> FALSE, v |-> JUndef, rest |-> <<>>]
            ELSE [ok |-> TRUE,
                  v |-> JStr(SubSeq(toks, 2, close - 1)),
                  rest |-> SubSeq(toks, close + 1, Len(toks))]
  ELSE [ok |-> FALSE, v |-> JUndef, rest |-> <<>>]

\* the members between the braces: name value (, name value)*; a repeated name
\* keeps its last value, as JSON.parse does
RECURSIVE ParseMembers(_, _, _)
ParseMembers(toks, obj, first) ==
  IF toks = <<>> THEN [ok |-> first, obj |-> obj]
  ELSE
    LET body == IF first THEN toks ELSE Tail(toks)
        sepOk == first \/ Head(toks) = ","
    IN IF ~sepOk \/ body = <<>> \/ Head(body) \notin MemberNames
         THEN [ok |-> FALSE, obj |-> obj]
       ELSE
         LET pv == ParseValue(Tail(body))
         IN IF ~pv.ok THEN [ok |-> FALSE, obj |-> obj]
            ELSE IF pv.rest = <<>>
              THEN [ok |-> TRUE, obj |-> SetMember(obj, Head(body), pv.v)]
            ELSE ParseMembers(pv.rest, SetMember(obj, Head(body), pv.v), FALSE)

\* JSON.parse of a text that starts with "{" and ends with "}":
\* ok = FALSE stands for the SyntaxError it throws
JsonParse(text) ==
  IF Len(text) < 2 \/ Head(text) # "{" \/ text[Len(text)] # "}"
    THEN [ok |-> FALSE, obj |-> EmptyObject]
  ELSE IF Len(text) = 2 THEN [ok |-> TRUE, obj |-> EmptyObject]
  ELSE ParseMembers(SubSeq(text, 2, Len(text) - 1), EmptyObject, TRUE)

\* content.match(/\{[\s\S]*\}/): greedy, from the first "{" to the last "}"
\* after it; <<>> stands for null (no match)
JsonMatch(content) ==
  LET open == IndexFrom(content, "{", 1)
      close == LastIndexFrom(content, "}", Len(content))
  IN IF open = 0 \/ close < open THEN <<>>
     ELSE SubSeq(content, open, close)

\* ---------------------------------------------------------------------------
\* Insight Transformer
\* ---------------------------------------------------------------------------

\* seeded fault: the normalised key is returned without the membership test
ValidateKeyNoCoercion(v) ==
  IF v.t \in {"undef", "null"} THEN [threw |-> FALSE, key |-> KeyOther]
  ELSE IF v.t # "str" THEN [threw |-> TRUE, key |-> KeyOther]
  ELSE [threw |-> FALSE, key |-> Trim(ToLowerCase(v.s))]

\* validateIssueKey(key): key?.toLowerCase().trim() short-circuits to undefined
\* for a null or undefined key and throws a TypeError for any other non-string
ValidateIssueKey(v) ==
  IF v.t \in {"undef", "null"} THEN [threw |-> FALSE, key |-> KeyOther]
  ELSE IF v.t # "str" THEN [threw |-> TRUE, key |-> KeyOther]
  ELSE LET normalized == Trim(ToLowerCase(v.s))
       IN [threw |-> FALSE,
           key |-> IF normalized \in VALID_ISSUE_KEYS THEN normalized ELSE KeyOther]

\* seeded fault: the two voices are exchanged
PerspectiveSwapped(isAnonymous) ==
  IF isAnonymous THEN "THIRD_PERSON" ELSE "FIRST_PERSON"

\* the voice the user prompt asks for
Perspective(isAnonymous) ==
  IF isAnonymous THEN "FIRST_PERSON" ELSE "THIRD_PERSON"

\* the request sent to the language-model service
ModelRequest(reviewText, hotelName, isAnonymous) ==
  [hotel |-> hotelName, review |-> reviewText, perspective |-> Perspective(isAnonymous)]

\* content.slice(0, 500)
SLICE_LIMIT == 500

InsightSafetyConcern == Sentence("Safety concern reported by guest.")
InsightDuringStay == Sentence("Guest reported concerns during stay.")
InsightDuringTheirStay == Sentence("Guest reported concerns during their stay.")

\* the catch block of transformReviewToSafetyInsight
CatchFallback ==
  [insight |-> InsightDuringTheirStay, issueKey |-> KeyOther, severity |-> SevWarning]

\* seeded fault: the severity is compared after normalisation, as the key is
SeverityLoose(v) ==
  IF v.t = "str" /\ Trim(ToLowerCase(v.s)) = SevCritical THEN SevCritical ELSE SevWarning

\* seeded fault: the comparison is inverted, 'warning' only when it is literal
SeverityDefaultCritical(v) ==
  IF v.t = "str" /\ v.s = SevWarning THEN SevWarning ELSE SevCritical

\* parsed.severity === 'critical' ? 'critical' : 'warning'
SeverityOf(v) ==
  IF v.t = "str" /\ v.s = SevCritical THEN SevCritical ELSE SevWarning

\* parsed.insight || 'Safety concern reported by guest.'
InsightOf(v) == IF Truthy(v) THEN v.s ELSE InsightSafetyConcern

\* A reply of the language-model service:
\*   kind "network_error"  fetch rejects
\*   kind "http_error"     response.ok is false
\*   kind "body_not_json"  response.json() rejects
\*   kind "no_choices"     data.choices?.[0]?.message?.content is undefined
\*   kind "content"        the reply text is in content
ContentOf(resp) == IF resp.kind = "content" THEN resp.content ELSE <<>>

\* the return statement inside the try block when the reply holds a JSON
\* object; threw stands for the TypeError validateIssueKey raises
ParsedResult(parsed) ==
  IF ValidateIssueKey(parsed.issueKey).threw
    THEN [threw |-> TRUE, value |-> CatchFallback]
    ELSE [threw |-> FALSE,
          value |-> [insight |-> InsightOf(parsed.insight),
                     issueKey |-> ValidateIssueKey(parsed.issueKey).key,
                     severity |-> SeverityOf(parsed.severity)]]

\* the object returned when the reply holds no brace-delimited text
NoMatchResult(content) ==
  [insight |-> IF Slice0(content, SLICE_LIMIT) # <<>>
                 THEN Slice0(content, SLICE_LIMIT)
                 ELSE InsightDuringStay,
   issueKey |-> KeyOther,
   severity |-> SevWarning]

\* the try block of transformReviewToSafetyInsight: the value it returns, or
\* threw = TRUE when fetch, response.json(), JSON.parse or validateIssueKey throws
TryBody(resp) ==
  IF resp.kind \in {"network_error", "http_error", "body_not_json"}
    THEN [threw |-> TRUE, value |-> CatchFallback]
  ELSE
    LET content == ContentOf(resp)
        jsonMatch == JsonMatch(content)
    IN IF jsonMatch # <<>>
         THEN LET parsed == JsonParse(jsonMatch)
              IN IF parsed.ok THEN ParsedResult(parsed.obj)
                 ELSE [threw |-> TRUE, value |-> CatchFallback]
       ELSE [threw |-> FALSE, value |-> NoMatchResult(content)]

\* seeded fault: no catch block, a throw reaches the caller
TransformWithoutCatch(resp) == TryBody(resp)

\* transformReviewToSafetyInsight, from the reply to what the caller gets:
\* the catch block turns every throw into the fallback object
TransformReviewToSafetyInsight(resp) ==
  IF TryBody(resp).threw THEN [threw |-> FALSE, value |-> CatchFallback]
  ELSE TryBody(resp)

\* ---------------------------------------------------------------------------
\* Configuration of the two scripts
\* ---------------------------------------------------------------------------

Scripts == {"general", "top"}

MAX_REVIEW_RATING == 3
MAX_REVIEWS_PER_HOTEL == 20
MAX_HOTELS == 300
GENERAL_MAX_REVIEW_AGE_DAYS == 30
TOP_MAX_REVIEW_AGE_DAYS == 0
SYSTEM_REPORTER_NAME == "StayLive Assistant"

\* CONFIG.MAX_REVIEW_AGE_DAYS of the script that runs
MaxReviewAgeDays(script) ==
  IF script = "general" THEN GENERAL_MAX_REVIEW_AGE_DAYS ELSE TOP_MAX_REVIEW_AGE_DAYS

\* JavaScript null in a column or field
NullValue == "<null>"

\* ---------------------------------------------------------------------------
\* The world outside the pipeline: clock, hotels table, review providers
\* ---------------------------------------------------------------------------

\* new Date(), in days
Now == 100

\* the rows of the hotels table, in name order
HotelsTable ==
  << [name |-> "Grand Hyatt Melbourne", google_place_id |-> "p1", tripAdvisorId |-> NullValue],
     [name |-> "Laneway Lodge", google_place_id |-> "p2", tripAdvisorId |-> NullValue],
     [name |-> "Unplaced Inn", google_place_id |-> NullValue, tripAdvisorId |-> NullValue] >>

\* the hard-coded list of the top-hotels script (one of its ten entries)
TOP_HOTELS ==
  << [name |-> "Grand Hyatt Melbourne", google_place_id |-> NullValue, tripAdvisorId |-> "155019"] >>

\* what the TripAdvisor location search answers for a hotel name
TaLocationOf(hotelName) ==
  IF hotelName \in {"Grand Hyatt Melbourne", "Hyatt on Collins"} THEN "155019" ELSE NullValue

\* rating and publish day of the i-th review of a provider
RatingOf(i) == CASE i % 3 = 1 -> 2 [] i % 3 = 2 -> 3 [] OTHER -> 5
DateOf(i) == IF i % 2 = 0 THEN Now - 40 ELSE Now - 5

\* the reviews TripAdvisor holds for a location; the last one is a recent
\* five-star review
TaReviews(locationId) ==
  IF locationId = "155019"
    THEN [i \in 1..NumReviews |->
            [id |-> <<ToString(i)>>, text |-> Sentence("room was dirty"),
             rating |-> RatingOf(i), published_date |-> DateOf(i)]]
         \o << [id |-> <<ToString(NumReviews + 1)>>, text |-> Sentence("lovely stay"),
                rating |-> MAX_REVIEW_RATING + 2, published_date |-> Now - 1] >>
    ELSE <<>>

\* the reviews Google Places holds for a place; the last one is a recent
\* five-star review
GoogleReviews(placeId) ==
  [i \in 1..NumReviews |->
     [name |-> <<"places/", placeId, "/reviews/", ToString(i)>>,
      text |-> Sentence("no hot water"),
      rating |-> RatingOf(i), publishTime |-> DateOf(i)]]
    \o << [name |-> <<"places/", placeId, "/reviews/", ToString(NumReviews + 1)>>,
           text |-> Sentence("lovely stay"),
           rating |-> MAX_REVIEW_RATING + 2, publishTime |-> Now - 1] >>

\* ---------------------------------------------------------------------------
\* Review adapters and filter
\* ---------------------------------------------------------------------------

\* String.prototype.replace(token, with): the first occurrence only
ReplaceFirst(s, token, with) ==
  LET at == IndexFrom(s, token, 1)
  IN IF at = 0 THEN s
     ELSE SubSeq(s, 1, at - 1) \o with \o SubSeq(s, at + 1, Len(s))

\* `tripadvisor_${review.id}`
TripAdvisorExternalId(id) == <<"tripadvisor_">> \o id

\* `google_${review.name.replace('places/', '').replace('/reviews/', '_')}`
GoogleExternalId(name) ==
  <<"google_">> \o ReplaceFirst(ReplaceFirst(name, "places/", <<>>), "/reviews/", <<"_">>)

\* seeded fault: the sentinel 0 is read as a window of zero days
DateLimitZeroIsWindow(script, publishDate) ==
  publishDate >= Now - MaxReviewAgeDays(script)

\* isReviewWithinDateLimit
IsReviewWithinDateLimit(script, publishDate) ==
  IF MaxReviewAgeDays(script) = 0 THEN TRUE
  ELSE publishDate >= Now - MaxReviewAgeDays(script)

IsNegative(review) == review.rating <= MAX_REVIEW_RATING

\* fetchTripAdvisorReviews on a successful response
FilterTripAdvisor(script, data) ==
  Slice0(SelectSeq(SelectSeq(data, IsNegative),
                   LAMBDA review : IsReviewWithinDateLimit(script, review.published_date)),
         MAX_REVIEWS_PER_HOTEL)

\* convertTripAdvisorToUnified (the top-hotels script builds the id in its loop)
ConvertTripAdvisorToUnified(reviews) ==
  [j \in 1..Len(reviews) |->
     [id |-> TripAdvisorExternalId(reviews[j].id), text |-> reviews[j].text,
      rating |-> reviews[j].rating, publishDate |-> reviews[j].published_date,
      source |-> "tripadvisor"]]

\* seeded fault: the Google adapter passes on every review it received
ConvertGoogleAllUncapped(data) ==
  [j \in 1..Len(data) |->
     [id |-> GoogleExternalId(data[j].name), text |-> data[j].text,
      rating |-> data[j].rating, publishDate |-> data[j].publishTime,
      source |-> "google"]]

\* fetchGoogleReviewsAll on a successful response
ConvertGoogleAll(data) ==
  LET kept == Slice0(data, MAX_REVIEWS_PER_HOTEL)
  IN [j \in 1..Len(kept) |->
        [id |-> GoogleExternalId(kept[j].name), text |-> kept[j].text,
         rating |-> kept[j].rating, publishDate |-> kept[j].publishTime,
         source |-> "google"]]

\* seeded fault: the fallback branch filters by date only
FilterGoogleAnyRating(script, googleReviews) ==
  SelectSeq(googleReviews,
            LAMBDA review : IsReviewWithinDateLimit(script, review.publishDate))

\* the fallback branch's filter of the Google reviews
FilterGoogle(script, googleReviews) ==
  SelectSeq(SelectSeq(googleReviews, IsNegative),
            LAMBDA review : IsReviewWithinDateLimit(script, review.publishDate))

\* How a call to a review provider ends:
\*   "ok"             a 2xx response with the provider's data
\*   "network_error"  fetch rejects
\*   "http_error"     response.ok is false
\*   "body_not_json"  response.json() rejects
\*   "no_data"        the body has no data / reviews member
\*   "malformed"      the member is there but is not a list of reviews
ProviderFailures == {"network_error", "http_error", "body_not_json", "no_data", "malformed"}

ProviderResponse(kind, data) == [kind |-> kind, data |-> IF kind = "ok" THEN data ELSE <<>>]

\* the try block of searchHotelTripAdvisor; for a data member that is not a
\* list, data.data[0] is undefined, which the driver's !tripAdvisorLocation
\* treats like null
SearchTry(resp) ==
  IF resp.kind \in {"network_error", "body_not_json"}
    THEN [threw |-> TRUE, value |-> NullValue]
  ELSE IF resp.kind \in {"http_error", "no_data", "malformed"}
    THEN [threw |-> FALSE, value |-> NullValue]
  ELSE [threw |-> FALSE, value |-> resp.data]

\* seeded fault: searchHotelTripAdvisor without its catch block
SearchWithoutCatch(resp) == SearchTry(resp)

\* searchHotelTripAdvisor: the catch block returns null
SearchAdapter(resp) ==
  IF SearchTry(resp).threw THEN [threw |-> FALSE, value |-> NullValue]
  ELSE SearchTry(resp)

\* the try block of fetchTripAdvisorReviews; .filter on a data member that is
\* not a list throws
FetchTripAdvisorTry(script, resp) ==
  IF resp.kind \in {"network_error", "body_not_json", "malformed"}
    THEN [threw |-> TRUE, value |-> <<>>]
  ELSE IF resp.kind \in {"http_error", "no_data"}
    THEN [threw |-> FALSE, value |-> <<>>]
  ELSE [threw |-> FALSE, value |-> FilterTripAdvisor(script, resp.data)]

\* fetchTripAdvisorReviews: the catch block returns []
FetchTripAdvisorAdapter(script, resp) ==
  IF FetchTripAdvisorTry(script, resp).threw THEN [threw |-> FALSE, value |-> <<>>]
  ELSE FetchTripAdvisorTry(script, resp)

\* the try block of fetchGoogleReviewsAll; .map on a reviews member that is
\* not a list of reviews throws
FetchGoogleTry(resp) ==
  IF resp.kind \in {"network_error", "body_not_json", "malformed"}
    THEN [threw |-> TRUE, value |-> <<>>]
  ELSE IF resp.kind \in {"http_error", "no_data"}
    THEN [threw |-> FALSE, value |-> <<>>]
  ELSE [threw |-> FALSE, value |-> ConvertGoogleAll(resp.data)]

\* seeded fault: the secondary adapter without its catch
FetchGoogleWithoutCatch(resp) == FetchGoogleTry(resp)

\* fetchGoogleReviewsAll: the catch block returns []
FetchGoogleAdapter(resp) ==
  IF FetchGoogleTry(resp).threw THEN [threw |-> FALSE, value |-> <<>>]
  ELSE FetchGoogleTry(resp)

\* fetchHotelsFromDatabase on a successful query
SelectHotels ==
  Slice0(SelectSeq(HotelsTable, LAMBDA h : h.google_place_id # NullValue), MAX_HOTELS)

\* ---------------------------------------------------------------------------
\* State
\* ---------------------------------------------------------------------------

\* the pipeline runs; in Spec run "A" finishes before run "B" starts
Runs == {"A", "B"}

VARIABLES
  run,      \* run[r]: the locals of runIngestion in run r, with its position pc
  reports,  \* the rows of the reports table, in insertion order
  faults,   \* failed calls injected so far: [store |-> n, provider |-> m]
  overlap,  \* TRUE when the operator starts run "B" without waiting for run "A"
  tx,       \* one call of transformReviewToSafetyInsight on its own (TransformSpec)
  fl,       \* one pass of a provider's review list through the filter (FilterSpec)
  co,       \* the cohort selection of one run of the general script (CohortSpec)
  dc,       \* one run of the hotel discovery script (DiscoverySpec)
  xi,       \* two reviews and the external ids built for them (ExternalIdSpec)
  pf        \* the profile store and one display-name update (ProfileSpec)

vars == <<run, reports, faults, overlap, tx, fl, co, dc, xi, pf>>

NoFaults == [store |-> 0, provider |-> 0]

NoRequest == [hotel |-> "", review |-> <<>>, perspective |-> "none"]
NoReply == [kind |-> "none", content |-> <<>>]
NoResult == [insight |-> <<>>, issueKey |-> <<>>, severity |-> <<>>]

InitRun(script) ==
  [pc |-> "idle", script |-> script, dbHotels |-> <<>>, i |-> 0,
   locationId |-> NullValue, reviews |-> <<>>, k |-> 0,
   isAnonymous |-> FALSE, request |-> NoRequest, reply |-> NoReply,
   transformed |-> NoResult,
   totalReviews |-> 0, skippedReviews |-> 0, successfulReports |-> 0,
   sinceCall |-> "start", backToBack |-> FALSE]

\* no display name is being updated
PfIdle == [pc |-> "off", profiles |-> {}, userId |-> "none", displayName |-> <<>>,
           validation |-> [valid |-> FALSE, cleaned |-> <<>>, error |-> "none"],
           result |-> [success |-> FALSE, error |-> "none"]]

\* no external id is being built
XiIdle == [pc |-> "idle", reviews |-> <<>>, ids |-> <<>>, again |-> <<>>]

\* no discovery run
DcIdle == [pc |-> "idle", world |-> "none", hotels |-> <<>>, existingHotelIds |-> {},
           discoveredHotels |-> <<>>, i |-> 0, queried |-> <<>>, index |-> 0,
           savedCount |-> 0]

\* no cohort is being selected
CoIdle == [pc |-> "idle", args |-> <<>>, reports |-> <<>>, calls |-> {},
           count |-> [nan |-> FALSE, n |-> 0], storeOk |-> TRUE, cohort |-> <<>>]

\* no review list is being filtered
FlIdle == [pc |-> "idle", script |-> "general", provider |-> "tripadvisor",
           input |-> <<>>, kept |-> <<>>]

TxIdle ==
  [pc |-> "idle", isAnonymous |-> FALSE, reply |-> NoReply,
   request |-> NoRequest, result |-> NoResult]

Init ==
  /\ run \in {[r \in Runs |-> InitRun(sc[r])] : sc \in [Runs -> Scripts]}
  /\ reports = <<>>
  /\ faults = NoFaults
  /\ overlap = FALSE
  /\ tx = TxIdle
  /\ fl = FlIdle
  /\ co = CoIdle
  /\ dc = DcIdle
  /\ xi = XiIdle
  /\ pf = PfIdle

\* ---------------------------------------------------------------------------
\* The store
\* ---------------------------------------------------------------------------

\* seeded fault: the table carries no uniqueness constraint
NoUniqueConstraint(rows, row) == FALSE

\* the uniqueness constraint of the reports table on external_review_id
ViolatesUnique(rows, row) ==
  /\ row.external_review_id # <<>>
  /\ \E j \in 1..Len(rows) : rows[j].external_review_id = row.external_review_id

\* seeded fault: the row is stored although the insert reports an error
StoreInsertDespiteError(rows, row, storeFails) ==
  IF storeFails \/ ViolatesUnique(rows, row)
    THEN [rows |-> Append(rows, row), error |-> TRUE]
    ELSE [rows |-> Append(rows, row), error |-> FALSE]

\* supabase.from('reports').insert(row): the rows afterwards and the error flag
StoreInsert(rows, row, storeFails) ==
  IF storeFails \/ ViolatesUnique(rows, row)
    THEN [rows |-> rows, error |-> TRUE]
    ELSE [rows |-> Append(rows, row), error |-> FALSE]

\* seeded fault: the lookup filters on the row id, which never equals a review id
StoreLookupOnRowId(rows, externalReviewId, storeFails) ==
  IF storeFails THEN [ok |-> FALSE, data |-> <<>>]
  ELSE [ok |-> TRUE, data |-> <<>>]

\* select id from reports where external_review_id = id limit 1;
\* <<>> with ok = FALSE stands for data = null
StoreLookup(rows, externalReviewId, storeFails) ==
  IF storeFails THEN [ok |-> FALSE, data |-> <<>>]
  ELSE [ok |-> TRUE,
        data |-> Slice0(SelectSeq(rows, LAMBDA row : row.external_review_id = externalReviewId), 1)]

\* seeded fault: a failed lookup counts as a hit
CheckExistingFailsClosed(lookup) == ~lookup.ok \/ Len(lookup.data) > 0

\* seeded fault: data.length > 1
CheckExistingOffByOne(lookup) == lookup.ok /\ Len(lookup.data) > 1

\* checkExistingReport: data !== null && data.length > 0
CheckExistingReport(lookup) == lookup.ok /\ Len(lookup.data) > 0

\* the environment may make a call fail while the fault budget lasts; faults
\* are injected into sequential runs only, so that under overlapping runs the
\* only insert that fails is the one the store refuses
Outcomes ==
  IF ~overlap /\ faults.store + faults.provider < MaxFaults THEN {TRUE, FALSE} ELSE {FALSE}

\* how a provider call may end in the current state
ProviderOutcomes == {"ok"} \cup (IF TRUE \in Outcomes THEN ProviderFailures ELSE {})

StoreFault(failed) == IF failed THEN [faults EXCEPT !.store = @ + 1] ELSE faults
ProviderFault(failed) == IF failed THEN [faults EXCEPT !.provider = @ + 1] ELSE faults

\* ---------------------------------------------------------------------------
\* Pipeline Driver
\* ---------------------------------------------------------------------------

Finished(r) == run[r].pc \in {"done", "aborted"}

\* a run may take a step: run "B" waits for run "A" unless the runs overlap
Scheduled(r) == overlap \/ r = "A" \/ Finished("A")

\* the first hotel at or after position i that the loop does not skip
RECURSIVE FirstProcessable(_, _, _)
FirstProcessable(script, hotels, i) ==
  IF i > Len(hotels) THEN i
  ELSE IF script = "general" /\ hotels[i].google_place_id = NullValue
    THEN FirstProcessable(script, hotels, i + 1)
  ELSE i

\* the locals of one loop iteration, out of scope once it ends
ClearReview(st) ==
  [st EXCEPT !.isAnonymous = FALSE, !.request = NoRequest, !.reply = NoReply,
             !.transformed = NoResult]

\* seeded fault: the counters start over with every hotel
ToHotelResetCounters(st, i) ==
  LET j == FirstProcessable(st.script, st.dbHotels, i)
      cleared == [ClearReview(st) EXCEPT !.i = j, !.locationId = NullValue,
                                        !.reviews = <<>>, !.k = 0,
                                        !.totalReviews = 0, !.skippedReviews = 0,
                                        !.successfulReports = 0]
  IN IF j > Len(st.dbHotels) THEN [cleared EXCEPT !.pc = "done"]
     ELSE [cleared EXCEPT !.pc = IF st.script = "general" THEN "search" ELSE "fetchTA"]

\* top of the hotel loop at position i: the next step is the first provider call
ToHotel(st, i) ==
  LET j == FirstProcessable(st.script, st.dbHotels, i)
      cleared == [ClearReview(st) EXCEPT !.i = j, !.locationId = NullValue,
                                        !.reviews = <<>>, !.k = 0]
  IN IF j > Len(st.dbHotels) THEN [cleared EXCEPT !.pc = "done"]
     ELSE [cleared EXCEPT !.pc = IF st.script = "general" THEN "search" ELSE "fetchTA"]

\* seeded fault: the review just handled is taken up again
NextReviewRepeat(st) == [ClearReview(st) EXCEPT !.pc = "dedup"]

\* end of one review: the next review of the hotel, or the next hotel
NextReview(st) ==
  IF st.k < Len(st.reviews)
    THEN [ClearReview(st) EXCEPT !.k = st.k + 1, !.pc = "dedup"]
    ELSE ToHotel(st, st.i + 1)

\* seeded fault: a hotel without reviews to process is handed to the fallback
StartReviewsOrFallback(st, reviews) ==
  IF reviews = <<>> THEN [st EXCEPT !.pc = "fetchGoogle"]
  ELSE [st EXCEPT !.reviews = reviews, !.k = 1, !.pc = "dedup"]

\* the review loop starts over the given reviews (an empty list ends the hotel)
StartReviews(st, reviews) ==
  IF reviews = <<>> THEN ToHotel(st, st.i + 1)
  ELSE [st EXCEPT !.reviews = reviews, !.k = 1, !.pc = "dedup"]

\* seeded fault: the configuration is validated after a first provider call
ValidateConfigAfterCall(r) ==
  /\ Scheduled(r)
  /\ run[r].pc = "idle"
  /\ \E configOk \in BOOLEAN, promptOk \in BOOLEAN :
       run' = [run EXCEPT ![r] =
                 IF ~configOk \/ ~promptOk THEN [@ EXCEPT !.sinceCall = "called", !.pc = "aborted"]
                 ELSE IF @.script = "general" THEN [@ EXCEPT !.pc = "cohort"]
                 ELSE ToHotel([@ EXCEPT !.dbHotels = TOP_HOTELS], 1)]
  /\ UNCHANGED <<reports, faults, overlap, tx, fl, co, dc, xi, pf>>

\* validateConfig and loadSystemPrompt: a missing setting or an unreadable
\* prompt file ends the process with exit code 1
ValidateConfig(r) ==
  /\ Scheduled(r)
  /\ run[r].pc = "idle"
  /\ \E configOk \in BOOLEAN, promptOk \in BOOLEAN :
       run' = [run EXCEPT ![r] =
                 IF ~configOk \/ ~promptOk THEN [@ EXCEPT !.pc = "aborted"]
                 ELSE IF @.script = "general" THEN [@ EXCEPT !.pc = "cohort"]
                 ELSE ToHotel([@ EXCEPT !.dbHotels = TOP_HOTELS], 1)]
  /\ UNCHANGED <<reports, faults, overlap, tx, fl, co, dc, xi, pf>>

\* fetchHotelsFromDatabase (default cohort mode); no hotels ends the process
FetchHotelsFromDatabase(r) ==
  /\ Scheduled(r)
  /\ run[r].pc = "cohort"
  /\ \E storeFails \in Outcomes :
       LET dbHotels == IF storeFails THEN <<>> ELSE SelectHotels
       IN /\ run' = [run EXCEPT ![r] =
                       IF dbHotels = <<>> THEN [@ EXCEPT !.pc = "aborted"]
                       ELSE ToHotel([@ EXCEPT !.dbHotels = dbHotels], 1)]
          /\ faults' = StoreFault(storeFails)
  /\ UNCHANGED <<reports, overlap, tx, fl, co, dc, xi, pf>>

\* await sleep(CONFIG.API_DELAY_MS)
Sleep(st) == [st EXCEPT !.sinceCall = "slept"]

\* a request goes out to a review provider or to the language-model service;
\* backToBack tells whether the previous request was followed by no sleep
ProviderCall(st) ==
  [st EXCEPT !.backToBack = (st.sinceCall = "called"), !.sinceCall = "called"]

\* an exception that leaves the hotel loop reaches runIngestion's catch
\* (general script) or is unhandled (top-hotels script): exit code 1
Rejected(st) == [st EXCEPT !.pc = "aborted"]

\* seeded fault: a hotel without a TripAdvisor match is given up at once
AfterSearchGiveUp(st, location) ==
  IF location = NullValue THEN ToHotel(st, st.i + 1)
  ELSE [st EXCEPT !.locationId = location, !.pc = "fetchTA"]

\* seeded fault: a hotel without a TripAdvisor match is searched again
AfterSearchAgain(st, location) ==
  IF location = NullValue THEN [st EXCEPT !.pc = "search"]
  ELSE [st EXCEPT !.locationId = location, !.pc = "fetchTA"]

\* if (!tripAdvisorLocation) the fallback branch, else the primary branch
AfterSearch(st, location) ==
  IF location = NullValue THEN [st EXCEPT !.pc = "fetchGoogle"]
  ELSE [st EXCEPT !.locationId = location, !.pc = "fetchTA"]

\* sleep, then searchHotelTripAdvisor: null on any failure or no match
SearchHotelTripAdvisor(r) ==
  /\ Scheduled(r)
  /\ run[r].pc = "search"
  /\ \E kind \in ProviderOutcomes :
       LET st == ProviderCall(Sleep(run[r]))
           out == SearchAdapter(ProviderResponse(kind, TaLocationOf(st.dbHotels[st.i].name)))
       IN /\ run' = [run EXCEPT ![r] =
                       IF out.threw THEN Rejected(st) ELSE AfterSearch(st, out.value)]
          /\ faults' = ProviderFault(kind # "ok")
  /\ UNCHANGED <<reports, overlap, tx, fl, co, dc, xi, pf>>

\* sleep, then fetchTripAdvisorReviews and the conversion to unified reviews
FetchTripAdvisorReviews(r) ==
  /\ Scheduled(r)
  /\ run[r].pc = "fetchTA"
  /\ \E kind \in ProviderOutcomes :
       LET st == ProviderCall(Sleep(run[r]))
           locationId == IF st.script = "general" THEN st.locationId
                         ELSE st.dbHotels[st.i].tripAdvisorId
           out == FetchTripAdvisorAdapter(st.script,
                                          ProviderResponse(kind, TaReviews(locationId)))
       IN /\ run' = [run EXCEPT ![r] =
                       IF out.threw THEN Rejected(st)
                       ELSE StartReviews(st, ConvertTripAdvisorToUnified(out.value))]
          /\ faults' = ProviderFault(kind # "ok")
  /\ UNCHANGED <<reports, overlap, tx, fl, co, dc, xi, pf>>

\* fetchGoogleReviewsAll, called right after the search, and the fallback
\* branch's filter
FetchGoogleReviewsAll(r) ==
  /\ Scheduled(r)
  /\ run[r].pc = "fetchGoogle"
  /\ \E kind \in ProviderOutcomes :
       \E st \in {ProviderCall(run[r])} :
         \E out \in {FetchGoogleAdapter(
                        ProviderResponse(kind, GoogleReviews(st.dbHotels[st.i].google_place_id)))} :
           /\ run' = [run EXCEPT ![r] =
                        IF out.threw THEN Rejected(st)
                        ELSE StartReviews(st, FilterGoogle(st.script, out.value))]
           /\ faults' = ProviderFault(kind # "ok")
  /\ UNCHANGED <<reports, overlap, tx, fl, co, dc, xi, pf>>

\* the replies of the language-model service the pipeline is run against:
\* one for each path through transformReviewToSafetyInsight
StrTok(s) == <<Q>> \o s \o <<Q>>
Obj(members) == <<"{">> \o members \o <<"}">>

ModelReplies ==
  { [kind |-> "network_error", content |-> <<>>],
    [kind |-> "http_error", content |-> <<>>],
    [kind |-> "no_choices", content |-> <<>>],
    [kind |-> "content", content |-> <<"o", "k">>],
    [kind |-> "content",
     content |-> <<"o", "k", ":">>
                 \o Obj(<<"insight:">> \o StrTok(<<"x">>) \o <<",", "issueKey:">>
                        \o StrTok(<<" ", "A", "C">>) \o <<",", "severity:">>
                        \o StrTok(SevCritical))],
    [kind |-> "content",
     content |-> Obj(<<"issueKey:">> \o StrTok(<<"a", "a">>) \o <<",", "severity:">>
                     \o StrTok(<<"C", "r", "i", "t", "i", "c", "a", "l">>))],
    [kind |-> "content", content |-> Obj(<<"issueKey:", "5">>)] }

\* seeded fault: the reporter name is set whatever the flag
SystemReporterAlways(isAnonymous) == SYSTEM_REPORTER_NAME

\* isAnonymous ? null : CONFIG.SYSTEM_REPORTER_NAME
SystemReporterName(isAnonymous) ==
  IF isAnonymous THEN NullValue ELSE SYSTEM_REPORTER_NAME

\* the ProcessedReport built after the transformation
BuildReport(st) ==
  [hotel_name |-> st.dbHotels[st.i].name,
   issue_key |-> st.transformed.issueKey,
   severity |-> st.transformed.severity,
   description |-> st.transformed.insight,
   is_anonymous |-> st.isAnonymous,
   is_verified |-> TRUE,
   source |-> "system",
   system_reporter_name |-> SystemReporterName(st.isAnonymous),
   external_review_id |-> st.reviews[st.k].id,
   external_review_date |-> st.reviews[st.k].publishDate]

\* seeded fault: the row is stamped with the time of the run
ReportRowCreatedNow(report) ==
  [hotel_name |-> report.hotel_name,
   issue_key |-> report.issue_key,
   severity |-> report.severity,
   description |-> report.description,
   reporter_id |-> NullValue,
   is_anonymous |-> report.is_anonymous,
   is_verified |-> TRUE,
   source |-> "system",
   system_reporter_name |-> report.system_reporter_name,
   external_review_id |-> report.external_review_id,
   external_review_date |-> report.external_review_date,
   created_at |-> Now]

\* the row upsertReport hands to insert
ReportRow(report) ==
  [hotel_name |-> report.hotel_name,
   issue_key |-> report.issue_key,
   severity |-> report.severity,
   description |-> report.description,
   reporter_id |-> NullValue,
   is_anonymous |-> report.is_anonymous,
   is_verified |-> TRUE,
   source |-> "system",
   system_reporter_name |-> report.system_reporter_name,
   external_review_id |-> report.external_review_id,
   external_review_date |-> report.external_review_date,
   created_at |-> report.external_review_date]

\* seeded fault: a failed insert leaves the review marked as handled
UpsertReportMarksAttempt(rows, report, storeFails) ==
  IF storeFails THEN [rows |-> Append(rows, ReportRow(report)), success |-> FALSE]
  ELSE [rows |-> StoreInsert(rows, ReportRow(report), FALSE).rows,
        success |-> ~StoreInsert(rows, ReportRow(report), FALSE).error]

\* seeded fault: an upsert in earnest, a row with the same external review id
\* is overwritten
UpsertReportOnConflictUpdate(rows, report, storeFails) ==
  IF storeFails THEN [rows |-> rows, success |-> FALSE]
  ELSE IF ViolatesUnique(rows, ReportRow(report))
    THEN [rows |-> [j \in 1..Len(rows) |->
                      IF rows[j].external_review_id = report.external_review_id
                        THEN ReportRow(report) ELSE rows[j]],
          success |-> TRUE]
  ELSE [rows |-> Append(rows, ReportRow(report)), success |-> TRUE]

\* upsertReport: one insert; an error or a thrown exception gives false
UpsertReport(rows, report, storeFails) ==
  LET res == StoreInsert(rows, ReportRow(report), storeFails)
  IN [rows |-> res.rows, success |-> ~res.error]

\* seeded fault: a review that exists is processed all the same
DedupBranchIgnoresExists(st, exists, anonymous) ==
  [st EXCEPT !.isAnonymous = anonymous, !.pc = "transform"]

\* seeded fault: the skip is counted but the continue is missing
DedupBranchNoContinue(st, exists, anonymous) ==
  IF exists
    THEN [st EXCEPT !.skippedReviews = @ + 1, !.isAnonymous = anonymous, !.pc = "transform"]
    ELSE [st EXCEPT !.isAnonymous = anonymous, !.pc = "transform"]

\* if (exists) { skippedReviews++; continue; } const isAnonymous = shouldBeAnonymous();
DedupBranch(st, exists, anonymous) ==
  IF exists
    THEN NextReview([st EXCEPT !.skippedReviews = @ + 1])
    ELSE [st EXCEPT !.isAnonymous = anonymous, !.pc = "transform"]

\* totalReviews++, checkExistingReport, and for a new review shouldBeAnonymous()
Dedup(r) ==
  /\ Scheduled(r)
  /\ run[r].pc = "dedup"
  /\ \E storeFails \in Outcomes, anonymous \in BOOLEAN :
       LET st == [run[r] EXCEPT !.totalReviews = @ + 1]
           exists == CheckExistingReport(StoreLookup(reports, st.reviews[st.k].id, storeFails))
       IN /\ exists => ~anonymous
          /\ run' = [run EXCEPT ![r] = DedupBranch(st, exists, anonymous)]
          /\ faults' = StoreFault(storeFails)
  /\ UNCHANGED <<reports, overlap, tx, fl, co, dc, xi, pf>>

\* sleep, then the call of transformReviewToSafetyInsight for the current
\* review; a rejection would reach runIngestion's catch (general script) or go unhandled
\* (top-hotels script), and either way end the process with exit code 1
Transform(r) ==
  /\ Scheduled(r)
  /\ run[r].pc = "transform"
  /\ \E reply \in ModelReplies :
       LET st == ProviderCall(Sleep(run[r]))
           out == TransformReviewToSafetyInsight(reply)
           sent == [st EXCEPT !.request = ModelRequest(st.reviews[st.k].text,
                                                       st.dbHotels[st.i].name,
                                                       st.isAnonymous),
                              !.reply = reply]
       IN run' = [run EXCEPT ![r] =
                    IF out.threw THEN [sent EXCEPT !.pc = "aborted"]
                    ELSE [sent EXCEPT !.transformed = out.value, !.pc = "write"]]
  /\ UNCHANGED <<reports, faults, overlap, tx, fl, co, dc, xi, pf>>

\* seeded fault: successfulReports++ whatever upsertReport returned
CountAlways(success) == TRUE

\* if (success) successfulReports++
CountsAsWritten(success) == success

\* the report is built and written; the counter follows the result
Write(r) ==
  /\ Scheduled(r)
  /\ run[r].pc = "write"
  /\ \E storeFails \in Outcomes :
       LET st == run[r]
           res == UpsertReport(reports, BuildReport(st), storeFails)
       IN /\ reports' = res.rows
          /\ run' = [run EXCEPT ![r] =
                       NextReview(IF CountsAsWritten(res.success)
                                    THEN [st EXCEPT !.successfulReports = @ + 1]
                                    ELSE st)]
          /\ faults' = StoreFault(storeFails)
  /\ UNCHANGED <<overlap, tx, fl, co, dc, xi, pf>>

Next ==
  \E r \in Runs :
    \/ ValidateConfig(r)
    \/ FetchHotelsFromDatabase(r)
    \/ SearchHotelTripAdvisor(r)
    \/ FetchTripAdvisorReviews(r)
    \/ FetchGoogleReviewsAll(r)
    \/ Dedup(r)
    \/ Transform(r)
    \/ Write(r)

\* sequential runs: run "B" is started after run "A" has ended
Spec == Init /\ [][Next]_vars

ConcurrentInit ==
  /\ run \in {[r \in Runs |-> InitRun(sc[r])] : sc \in [Runs -> Scripts]}
  /\ reports = <<>>
  /\ faults = NoFaults
  /\ overlap = TRUE
  /\ tx = TxIdle
  /\ fl = FlIdle
  /\ co = CoIdle
  /\ dc = DcIdle
  /\ xi = XiIdle
  /\ pf = PfIdle

\* two runs started independently, interleaving at every await
ConcurrentSpec == ConcurrentInit /\ [][Next]_vars

\* one run on its own: run "B" is never started
SoloInit ==
  /\ run \in {[r \in Runs |-> IF r = "A" THEN InitRun(script)
                               ELSE [InitRun(script) EXCEPT !.pc = "off"]] :
              script \in Scripts}
  /\ reports = <<>>
  /\ faults = NoFaults
  /\ overlap = FALSE
  /\ tx = TxIdle
  /\ fl = FlIdle
  /\ co = CoIdle
  /\ dc = DcIdle
  /\ xi = XiIdle
  /\ pf = PfIdle

SoloSpec == SoloInit /\ [][Next]_vars

\* ---------------------------------------------------------------------------
\* The transformer on its own, over a wide set of replies
\* ---------------------------------------------------------------------------

KeyAlphabet == {"a", "c", "A", " "}
KeyStrings == UNION {[1..n -> KeyAlphabet] : n \in 0..MaxKeyLen}

IssueKeyValues ==
  {JUndef, JNull, JNum}
    \cup {JStr(k) : k \in KeyStrings}
    \cup {JStr(KeyWifi), JStr(<<"W", "i", "F", "i", " ">>), JStr(KeyOther)}

SeverityValues ==
  {JUndef, JNull, JNum, JStr(SevCritical), JStr(SevWarning),
   JStr(<<"C", "r", "i", "t", "i", "c", "a", "l">>),
   JStr(SevCritical \o <<" ">>)}

InsightValues == {JUndef, JStr(<<>>), JStr(<<"x">>)}

\* the text of one member, empty when the member is absent
MemberText(name, v) ==
  CASE v.t = "undef" -> <<>>
    [] v.t = "null" -> <<name, "null">>
    [] v.t = "num" -> <<name, "5">>
    [] v.t = "str" -> <<name>> \o StrTok(v.s)

JoinMembers(a, b) ==
  IF a = <<>> THEN b ELSE IF b = <<>> THEN a ELSE a \o <<",">> \o b

ObjectText(insight, issueKey, severity) ==
  Obj(JoinMembers(JoinMembers(MemberText("insight:", insight),
                              MemberText("issueKey:", issueKey)),
                  MemberText("severity:", severity)))

\* how the model wraps the object: alone, inside prose, or followed by a
\* second closing brace
Wrappings == {"alone", "prose", "trailing_brace"}

Wrap(w, object) ==
  CASE w = "alone" -> object
    [] w = "prose" -> <<"o", "k", ":">> \o object \o <<"!">>
    [] w = "trailing_brace" -> object \o <<" ", "}">>

LongText == [n \in 1..(SLICE_LIMIT + 1) |-> "t"]

TransformReplies ==
  { [kind |-> kd, content |-> <<>>] :
      kd \in {"network_error", "http_error", "body_not_json", "no_choices"} }
    \cup { [kind |-> "content", content |-> c] :
             c \in {<<>>, <<"o", "k">>, <<"{", "o">>, <<"}", "o", "{">>, <<"{", "o", "}">>,
                    LongText} }
    \cup { [kind |-> "content", content |-> Wrap(w, ObjectText(ins, key, sev))] :
             w \in Wrappings, ins \in InsightValues, key \in IssueKeyValues,
             sev \in SeverityValues }

TransformInit ==
  /\ run = [r \in Runs |-> InitRun("general")]
  /\ reports = <<>>
  /\ faults = NoFaults
  /\ overlap = FALSE
  /\ tx \in { [pc |-> "call", isAnonymous |-> a, reply |-> reply,
               request |-> NoRequest, result |-> NoResult] :
              a \in BOOLEAN, reply \in TransformReplies }
  /\ fl = FlIdle
  /\ co = CoIdle
  /\ dc = DcIdle
  /\ xi = XiIdle
  /\ pf = PfIdle

\* one call: the request is built, the reply arrives, the result is returned
TransformCall ==
  /\ tx.pc = "call"
  /\ LET out == TransformReviewToSafetyInsight(tx.reply)
     IN tx' = [tx EXCEPT !.pc = IF out.threw THEN "threw" ELSE "returned",
                         !.request = ModelRequest(Sentence("room was dirty"),
                                                  "Grand Hyatt Melbourne",
                                                  tx.isAnonymous),
                         !.result = out.value]
  /\ UNCHANGED <<run, reports, faults, overlap, fl, co, dc, xi, pf>>

TransformNext == TransformCall

TransformSpec == TransformInit /\ [][TransformNext]_vars

\* ---------------------------------------------------------------------------
\* The review filter on its own, over bounded review lists
\* ---------------------------------------------------------------------------

\* ratings below, at and above the threshold; publish days before, at and
\* after the cutoff of the general script
FilterRatings == {1, MAX_REVIEW_RATING, MAX_REVIEW_RATING + 1}
FilterDates ==
  {Now - GENERAL_MAX_REVIEW_AGE_DAYS - 1, Now - GENERAL_MAX_REVIEW_AGE_DAYS, Now - 1}
FilterReviews == [rating : FilterRatings, date : FilterDates]

\* more negative reviews than an adapter passes on, all recent; the second
\* list starts with a positive review
LongList ==
  [j \in 1..(MAX_REVIEWS_PER_HOTEL + 1) |-> [rating |-> 2, date |-> Now - 1]]
LongListPositiveFirst == [LongList EXCEPT ![1].rating = MAX_REVIEW_RATING + 1]

FilterInputs ==
  UNION {[1..n -> FilterReviews] : n \in 0..MaxInputLen}
    \cup {LongList, LongListPositiveFirst}

\* the review list as TripAdvisor's data.data and as Google's data.reviews;
\* the j-th review carries j in its provider-native id
AsTripAdvisorData(input) ==
  [j \in 1..Len(input) |->
     [id |-> <<ToString(j)>>, text |-> Sentence("room was dirty"),
      rating |-> input[j].rating, published_date |-> input[j].date]]

AsGoogleData(input) ==
  [j \in 1..Len(input) |->
     [name |-> <<"places/", "p1", "/reviews/", ToString(j)>>,
      text |-> Sentence("no hot water"),
      rating |-> input[j].rating, publishTime |-> input[j].date]]

\* the reviews that reach the review loop: filtered inside
\* fetchTripAdvisorReviews, or by the fallback branch after fetchGoogleReviewsAll
ReviewsToProcess(script, provider, input) ==
  IF provider = "tripadvisor"
    THEN ConvertTripAdvisorToUnified(FilterTripAdvisor(script, AsTripAdvisorData(input)))
    ELSE FilterGoogle(script, ConvertGoogleAll(AsGoogleData(input)))

\* the script and provider pairs the code has: the top-hotels script reads
\* TripAdvisor only
FilterPaths ==
  { <<"general", "tripadvisor">>, <<"general", "google">>, <<"top", "tripadvisor">> }

FilterInit ==
  /\ run = [r \in Runs |-> InitRun("general")]
  /\ reports = <<>>
  /\ faults = NoFaults
  /\ overlap = FALSE
  /\ tx = TxIdle
  /\ fl \in { [pc |-> "call", script |-> path[1], provider |-> path[2],
               input |-> input, kept |-> <<>>] :
              path \in FilterPaths, input \in FilterInputs }
  /\ co = CoIdle
  /\ dc = DcIdle
  /\ xi = XiIdle
  /\ pf = PfIdle

FilterCall ==
  /\ fl.pc = "call"
  /\ fl' = [fl EXCEPT !.pc = "returned",
                      !.kept = ReviewsToProcess(fl.script, fl.provider, fl.input)]
  /\ UNCHANGED <<run, reports, faults, overlap, tx, co, dc, xi, pf>>

FilterNext == FilterCall

FilterSpec == FilterInit /\ [][FilterNext]_vars

\* ---------------------------------------------------------------------------
\* Cohort selection of the general script
\* ---------------------------------------------------------------------------

RANDOM_SAMPLE_SIZE == 20

\* a JavaScript number: an integer, or Number.NaN
Num(n) == [nan |-> FALSE, n |-> n]
NaN == [nan |-> TRUE, n |-> 0]
IsNaN(x) == x.nan

\* the hotels table with its id column, in name order
VenueRows ==
  << [id |-> "h1", name |-> "Grand Hyatt Melbourne", google_place_id |-> "p1"],
     [id |-> "h2", name |-> "Laneway Lodge", google_place_id |-> "p2"],
     [id |-> "h3", name |-> "Quay West Suites", google_place_id |-> "p3"],
     [id |-> "h4", name |-> "Unplaced Inn", google_place_id |-> NullValue] >>

\* .not('google_place_id', 'is', null)
WithPlaceId(hotels) == SelectSeq(hotels, LAMBDA h : h.google_place_id # NullValue)

\* a command-line argument: --name or --name=value
Arg(name, value) == [name |-> name, eq |-> TRUE, value |-> value]
Flag(name) == [name |-> name, eq |-> FALSE, value |-> <<>>]

ArgTokens ==
  { Flag("--random"), Flag("--unprocessed"),
    Arg("--random", <<"0">>), Arg("--random", <<"1">>), Arg("--random", <<"-", "1">>),
    Arg("--random", <<"x">>), Arg("--unprocessed", <<"1">>) }

ArgLists == UNION {[1..n -> ArgTokens] : n \in 0..MaxArgs}

Digits == <<"0", "1", "2", "3", "4", "5", "6", "7", "8", "9">>
IsDigit(c) == \E d \in 1..10 : Digits[d] = c
DigitValue(c) == (CHOOSE d \in 1..10 : Digits[d] = c) - 1

\* the value of the leading digits of text, -1 when there is none
RECURSIVE LeadingDigits(_, _)
LeadingDigits(text, acc) ==
  IF text = <<>> \/ ~IsDigit(Head(text)) THEN acc
  ELSE LeadingDigits(Tail(text), (IF acc < 0 THEN 0 ELSE acc) * 10 + DigitValue(Head(text)))

\* parseInt(text, 10)
ParseInt(text) ==
  LET negative == text # <<>> /\ Head(text) = "-"
      digits == LeadingDigits(IF negative THEN Tail(text) ELSE text, -1)
  IN IF digits < 0 THEN NaN ELSE IF negative THEN Num(0 - digits) ELSE Num(digits)

\* arg.startsWith('--random=')
IsRandomSize(arg) == arg.name = "--random" /\ arg.eq

\* args.find(arg => arg.startsWith('--random=')) finds one
HasRandomSizeArg(args) == \E j \in 1..Len(args) : IsRandomSize(args[j])

\* the argument args.find returns: the first that matches
RandomSizeArg(args) ==
  args[CHOOSE j \in 1..Len(args) :
         IsRandomSize(args[j]) /\ \A m \in 1..(j - 1) : ~IsRandomSize(args[m])]

Includes(args, name) == \E j \in 1..Len(args) : args[j] = Flag(name)

UseRandomSampling(args) == Includes(args, "--random") \/ HasRandomSizeArg(args)
UseUnprocessedOnly(args) == Includes(args, "--unprocessed")

RandomSampleCount(args) ==
  IF HasRandomSizeArg(args) THEN ParseInt(RandomSizeArg(args).value)
  ELSE Num(RANDOM_SAMPLE_SIZE)

\* Math.min(count, length)
MathMin(count, length) == IF IsNaN(count) THEN NaN ELSE Num(Min(count.n, length))

\* Array.prototype.slice(0, end)
SliceTo(a, end) ==
  IF IsNaN(end) THEN <<>>
  ELSE IF end.n < 0 THEN SubSeq(a, 1, IF Len(a) + end.n < 0 THEN 0 ELSE Len(a) + end.n)
  ELSE SubSeq(a, 1, Min(end.n, Len(a)))

Swap(a, i, j) == [a EXCEPT ![i] = a[j], ![j] = a[i]]

\* the random draws of one shuffle: js[i] is the position swapped with i
ShuffleDraws == {js \in [2..Len(VenueRows) -> 1..Len(VenueRows)] : \A i \in DOMAIN js : js[i] <= i}

\* seeded fault: the element at j is copied to i, not swapped
RECURSIVE ShuffleCopying(_, _, _)
ShuffleCopying(a, i, js) ==
  IF i < 2 THEN a ELSE ShuffleCopying([a EXCEPT ![i] = a[js[i]]], i - 1, js)

\* the Fisher-Yates loop, from position i down to the second
RECURSIVE FisherYates(_, _, _)
FisherYates(a, i, js) ==
  IF i < 2 THEN a ELSE FisherYates(Swap(a, i, js[i]), i - 1, js)

\* fetchHotelsFromDatabase over a given table
AllHotels(hotels, hotelsFail) ==
  IF hotelsFail THEN <<>> ELSE Slice0(WithPlaceId(hotels), MAX_HOTELS)

\* fetchRandomHotels
FetchRandomHotels(hotels, count, js, hotelsFail) ==
  LET data == WithPlaceId(hotels)
  IN IF hotelsFail \/ data = <<>> THEN <<>>
     ELSE SliceTo(FisherYates(data, Len(data), js), MathMin(count, Len(data)))

\* the hotel_id column of a reports row; a column the insert leaves out is null
HotelIdOf(row) == IF "hotel_id" \in DOMAIN row THEN row.hotel_id ELSE NullValue

\* processedHotelIds
ProcessedHotelIds(rows) ==
  {HotelIdOf(rows[n]) : n \in {m \in 1..Len(rows) : HotelIdOf(rows[m]) # NullValue}}

\* fetchUnprocessedHotels
FetchUnprocessedHotels(rows, hotels, count, js, reportsFail, hotelsFail) ==
  LET unprocessedHotels ==
        SelectSeq(WithPlaceId(hotels), LAMBDA h : h.id \notin ProcessedHotelIds(rows))
  IN IF reportsFail \/ hotelsFail \/ unprocessedHotels = <<>> THEN <<>>
     ELSE SliceTo(FisherYates(unprocessedHotels, Len(unprocessedHotels), js),
                  MathMin(count, Len(unprocessedHotels)))

\* seeded fault: two independent ifs in place of the if / else-if chain
SelectionCallsBoth(args) ==
  (IF UseUnprocessedOnly(args) THEN {"fetchUnprocessedHotels"} ELSE {})
    \cup (IF UseRandomSampling(args) THEN {"fetchRandomHotels"} ELSE {})
    \cup (IF ~UseUnprocessedOnly(args) /\ ~UseRandomSampling(args)
           THEN {"fetchHotelsFromDatabase"} ELSE {})

\* the selection functions Step 1 of runIngestion calls
SelectionCalls(args) ==
  IF UseUnprocessedOnly(args) THEN {"fetchUnprocessedHotels"}
  ELSE IF UseRandomSampling(args) THEN {"fetchRandomHotels"}
  ELSE {"fetchHotelsFromDatabase"}

\* a report the pipeline wrote for a hotel, and a report a user filed for it
PipelineRow(h) ==
  ReportRow(BuildReport([InitRun("general") EXCEPT
    !.dbHotels = <<h>>, !.i = 1, !.k = 1, !.transformed = CatchFallback,
    !.reviews = ConvertGoogleAll(SubSeq(GoogleReviews(h.google_place_id), 1, 1))]))

UserRow(h) ==
  [hotel_id |-> h.id, hotel_name |-> h.name, source |-> "user",
   external_review_id |-> <<>>]

ReportsOf(h, status) ==
  CASE status = "pipeline" -> <<PipelineRow(h)>>
    [] status = "user" -> <<UserRow(h)>>
    [] OTHER -> <<>>

ReportTables ==
  { ReportsOf(VenueRows[1], st[1]) \o ReportsOf(VenueRows[2], st[2])
      \o ReportsOf(VenueRows[3], st[3]) :
    st \in [1..3 -> {"none", "pipeline", "user"}] }

CohortInit ==
  /\ run = [r \in Runs |-> InitRun("general")]
  /\ reports = <<>>
  /\ faults = NoFaults
  /\ overlap = FALSE
  /\ tx = TxIdle
  /\ fl = FlIdle
  /\ co \in { [CoIdle EXCEPT !.pc = "start", !.args = args, !.reports = rows] :
              args \in ArgLists, rows \in ReportTables }
  /\ dc = DcIdle
  /\ xi = XiIdle
  /\ pf = PfIdle

\* Step 1 of runIngestion: the cohort, or exit code 1 when it is empty
SelectCohort ==
  /\ co.pc = "start"
  /\ \E js \in ShuffleDraws, reportsFail \in BOOLEAN, hotelsFail \in BOOLEAN :
       LET calls == SelectionCalls(co.args)
           count == RandomSampleCount(co.args)
           dbHotels ==
             IF "fetchUnprocessedHotels" \in calls
               THEN FetchUnprocessedHotels(co.reports, VenueRows, count, js,
                                           reportsFail, hotelsFail)
             ELSE IF "fetchRandomHotels" \in calls
               THEN FetchRandomHotels(VenueRows, count, js, hotelsFail)
             ELSE AllHotels(VenueRows, hotelsFail)
       IN /\ "fetchUnprocessedHotels" \notin calls => ~reportsFail
          /\ co' = [co EXCEPT !.pc = IF dbHotels = <<>> THEN "exit1" ELSE "selected",
                              !.calls = calls, !.count = count,
                              !.storeOk = ~reportsFail /\ ~hotelsFail,
                              !.cohort = dbHotels]
  /\ UNCHANGED <<run, reports, faults, overlap, tx, fl, dc, xi, pf>>

CohortNext == SelectCohort

CohortSpec == CohortInit /\ [][CohortNext]_vars

\* ---------------------------------------------------------------------------
\* Hotel discovery script
\* ---------------------------------------------------------------------------

TARGET_HOTEL_COUNT == 500
MAX_RESULTS_PER_REQUEST == 20

\* MELBOURNE_SEARCH_LOCATIONS.length
SearchLocationCount == 41

\* places of one search that no other search returns
FreshPerSearch == 18

PlaceId(n) == "place-" \o ToString(n)

\* the hotels table before the run, when it is not empty; a rating of 0 stands
\* for null
ExistingHotels ==
  << [google_place_id |-> PlaceId(0), name |-> "Quay West Suites", google_rating |-> 4],
     [google_place_id |-> PlaceId(1), name |-> "Laneway Lodge", google_rating |-> 3] >>

\* the n-th place Google Places returns around search location c: places of
\* its own first, then the first place of the location before, then a place
\* that is in ExistingHotels, with a newer rating; one place has no display
\* name and one carries the name of an existing hotel under another id
PlaceAt(c, n) ==
  IF n <= FreshPerSearch
    THEN [id |-> PlaceId(100 * c + n),
          displayName |-> IF c = 1 /\ n = 2 THEN NullValue
                          ELSE IF c = 2 /\ n = 3 THEN "Laneway Lodge"
                          ELSE "Hotel " \o ToString(100 * c + n),
          rating |-> IF n % 2 = 0 THEN 0 ELSE 4]
  ELSE IF n < MAX_RESULTS_PER_REQUEST
    THEN [id |-> PlaceId(100 * (IF c = 1 THEN 1 ELSE c - 1) + 1),
          displayName |-> "Hotel " \o ToString(100 * (IF c = 1 THEN 1 ELSE c - 1) + 1),
          rating |-> 4]
  ELSE [id |-> PlaceId(0), displayName |-> "Quay West Suites", rating |-> 5]

Places(c) == [n \in 1..MAX_RESULTS_PER_REQUEST |-> PlaceAt(c, n)]

\* How the searches of one run end, by search location:
\*   "ok"               a body with places
\*   "error_payload"    a body with an error member
\*   "network_error"    fetch rejects
\*   "body_not_json"    response.json() rejects
\*   "no_places"        a body without places
\*   "places_not_list"  a body whose places member is not a list
SearchScenarios ==
  {"all_ok", "error_at_3", "thrown_at_5_6", "dry_after_10", "all_fail", "not_a_list_at_2"}

SearchKind(scenario, c) ==
  CASE scenario = "error_at_3" /\ c = 3 -> "error_payload"
    [] scenario = "thrown_at_5_6" /\ c = 5 -> "network_error"
    [] scenario = "thrown_at_5_6" /\ c = 6 -> "body_not_json"
    [] scenario = "dry_after_10" /\ c > 10 -> "no_places"
    [] scenario = "all_fail" -> IF c % 2 = 0 THEN "network_error" ELSE "error_payload"
    [] scenario = "not_a_list_at_2" /\ c = 2 -> "places_not_list"
    [] OTHER -> "ok"

\* the try block of searchHotelsAtLocation
SearchHotelsTry(kind, places) ==
  CASE kind \in {"network_error", "body_not_json"} ->
         [threw |-> TRUE, iterable |-> TRUE, value |-> <<>>]
    [] kind = "error_payload" -> [threw |-> FALSE, iterable |-> TRUE, value |-> <<>>]
    [] kind = "no_places" -> [threw |-> FALSE, iterable |-> TRUE, value |-> <<>>]
    [] kind = "places_not_list" -> [threw |-> FALSE, iterable |-> FALSE, value |-> <<>>]
    [] OTHER -> [threw |-> FALSE, iterable |-> TRUE, value |-> places]

\* seeded fault: searchHotelsAtLocation without its catch
SearchHotelsWithoutCatch(kind, places) == SearchHotelsTry(kind, places)

\* searchHotelsAtLocation: the catch block returns []
SearchHotelsAtLocation(kind, places) ==
  IF SearchHotelsTry(kind, places).threw
    THEN [threw |-> FALSE, iterable |-> TRUE, value |-> <<>>]
    ELSE SearchHotelsTry(kind, places)

\* the HotelRecord built from a place; rating || null keeps 0 for null
HotelRecord(place) ==
  [google_place_id |-> place.id,
   name |-> IF place.displayName = NullValue THEN "Unknown Hotel" ELSE place.displayName,
   google_rating |-> place.rating]

\* seeded fault: no place counts as discovered already
DiscoveredNever(discoveredHotels, id) == FALSE

\* discoveredHotels.has(id)
Discovered(discoveredHotels, id) ==
  \E known \in {discoveredHotels} :
    \E j \in 1..Len(known) : known[j].google_place_id = id

\* the loop over the places of one search, from place n on
RECURSIVE RecordPlaces(_, _, _, _)
RecordPlaces(discoveredHotels, existingHotelIds, places, n) ==
  IF n > Len(places) THEN discoveredHotels
  ELSE CHOOSE result \in
         { RecordPlaces(after, existingHotelIds, places, n + 1) :
             after \in { IF places[n].id \in existingHotelIds THEN discoveredHotels
                         ELSE IF ~Discovered(discoveredHotels, places[n].id)
                           THEN Append(discoveredHotels, HotelRecord(places[n]))
                         ELSE discoveredHotels } } : TRUE

\* fetchExistingHotelIds: the place ids of the table, none when the query fails
FetchExistingHotelIds(rows, storeFails) ==
  IF storeFails THEN {}
  ELSE {rows[j].google_place_id :
          j \in {m \in 1..Len(rows) : rows[m].google_place_id # NullValue}}

\* the column an upsert resolves conflicts on
ConflictKey(row, onConflict) ==
  IF onConflict = "google_place_id" THEN row.google_place_id ELSE row.name

\* row j of the table agrees with no other row on a unique column
UniqueAt(rows, j, nameUnique) ==
  \E table \in {rows}, at \in {j} :
    \A m \in 1..Len(table) :
      m # at => /\ table[m].google_place_id # table[at].google_place_id
                /\ nameUnique => table[m].name # table[at].name

\* insert ... on conflict (onConflict) do update: the row that agrees on the
\* conflict column is overwritten, else the row is added; error 23505 when
\* the result breaks a unique constraint, 42P10 when the conflict column has none
DbUpsert(rows, row, onConflict, nameUnique) ==
  LET hit == {j \in 1..Len(rows) : ConflictKey(rows[j], onConflict) = ConflictKey(row, onConflict)}
      at == IF hit = {} THEN Len(rows) + 1 ELSE CHOOSE j \in hit : TRUE
      after == IF hit = {} THEN Append(rows, row) ELSE [rows EXCEPT ![at] = row]
  IN IF onConflict = "name" /\ ~nameUnique THEN [rows |-> rows, error |-> "42P10"]
     ELSE IF UniqueAt(after, at, nameUnique) THEN [rows |-> after, error |-> "none"]
     ELSE [rows |-> rows, error |-> "23505"]

\* upsertHotel: on conflict of the place id, and after error 23505 once more
\* on conflict of the name
UpsertHotel(rows, hotel, nameUnique, storeFails) ==
  LET first == DbUpsert(rows, hotel, "google_place_id", nameUnique)
      second == DbUpsert(rows, hotel, "name", nameUnique)
  IN IF storeFails THEN [rows |-> rows, success |-> FALSE]
     ELSE IF first.error = "none" THEN [rows |-> first.rows, success |-> TRUE]
     ELSE IF first.error = "23505"
       THEN IF second.error = "none" THEN [rows |-> second.rows, success |-> TRUE]
            ELSE [rows |-> rows, success |-> FALSE]
     ELSE [rows |-> rows, success |-> FALSE]

\* seeded fault: the target count does not end the search loop
SearchGoesOnToTheEnd(i, size) == i <= SearchLocationCount

\* seeded fault: the search loop tests the target with the size of one request
\* added to it
SearchGoesOnWithSlack(i, size) ==
  i <= SearchLocationCount /\ size < TARGET_HOTEL_COUNT + MAX_RESULTS_PER_REQUEST

\* the condition under which the search loop takes another location
SearchGoesOn(i, size) == i <= SearchLocationCount /\ size < TARGET_HOTEL_COUNT

\* the circumstances of one discovery run
DiscoveryWorlds ==
  [searches : SearchScenarios,
   hotelsBefore : {<<>>, ExistingHotels},
   existingQueryFails : BOOLEAN,
   nameUnique : BOOLEAN,
   failingUpsert : {NullValue, PlaceId(103)}]

DiscoveryInit ==
  /\ run = [r \in Runs |-> InitRun("general")]
  /\ reports = <<>>
  /\ faults = NoFaults
  /\ overlap = FALSE
  /\ tx = TxIdle
  /\ fl = FlIdle
  /\ co = CoIdle
  /\ dc \in { [DcIdle EXCEPT !.pc = "start", !.world = w, !.hotels = w.hotelsBefore] :
              w \in DiscoveryWorlds }
  /\ xi = XiIdle
  /\ pf = PfIdle

\* validateConfig: a missing setting ends the process with exit code 1
DiscoveryValidateConfig ==
  /\ dc.pc = "start"
  /\ \E configOk \in BOOLEAN :
       dc' = [dc EXCEPT !.pc = IF configOk THEN "existing" ELSE "aborted"]
  /\ UNCHANGED <<run, reports, faults, overlap, tx, fl, co, xi, pf>>

\* const existingHotelIds = await fetchExistingHotelIds(supabase)
DiscoveryFetchExisting ==
  /\ dc.pc = "existing"
  /\ dc' = [dc EXCEPT !.existingHotelIds =
                        FetchExistingHotelIds(dc.hotels, dc.world.existingQueryFails),
                      !.i = 1, !.pc = "search"]
  /\ UNCHANGED <<run, reports, faults, overlap, tx, fl, co, xi, pf>>

\* one pass of the search loop: sleep, searchHotelsAtLocation, and the loop
\* over its places; an exception out of the call, or a places value that
\* cannot be iterated, rejects runHotelDiscovery and the process exits with
\* code 1
DiscoverySearch ==
  /\ dc.pc = "search"
  /\ SearchGoesOn(dc.i, Len(dc.discoveredHotels))
  /\ \E out \in {SearchHotelsAtLocation(SearchKind(dc.world.searches, dc.i), Places(dc.i))} :
       dc' = IF out.threw \/ ~out.iterable
                THEN [dc EXCEPT !.queried = Append(@, dc.i), !.pc = "aborted"]
                ELSE [dc EXCEPT !.queried = Append(@, dc.i),
                                !.discoveredHotels =
                                  RecordPlaces(@, dc.existingHotelIds, out.value, 1),
                                !.i = @ + 1]
  /\ UNCHANGED <<run, reports, faults, overlap, tx, fl, co, xi, pf>>

\* the search loop ends, by the break or with the last location; without a
\* new hotel the run returns after its summary
DiscoverySearchEnds ==
  /\ dc.pc = "search"
  /\ ~SearchGoesOn(dc.i, Len(dc.discoveredHotels))
  /\ dc' = [dc EXCEPT !.pc = IF dc.discoveredHotels = <<>> THEN "done" ELSE "save"]
  /\ UNCHANGED <<run, reports, faults, overlap, tx, fl, co, xi, pf>>

\* one pass of the save loop: upsertHotel and the count of saved hotels
DiscoverySave ==
  /\ dc.pc = "save"
  /\ \E hotel \in {dc.discoveredHotels[dc.index + 1]} :
     \E res \in {UpsertHotel(dc.hotels, hotel, dc.world.nameUnique,
                             hotel.google_place_id = dc.world.failingUpsert)} :
       dc' = [dc EXCEPT !.hotels = res.rows,
                         !.index = @ + 1,
                         !.savedCount = IF res.success THEN @ + 1 ELSE @,
                         !.pc = IF dc.index + 1 = Len(dc.discoveredHotels)
                                  THEN "done" ELSE "save"]
  /\ UNCHANGED <<run, reports, faults, overlap, tx, fl, co, xi, pf>>

DiscoveryNext ==
  \/ DiscoveryValidateConfig
  \/ DiscoveryFetchExisting
  \/ DiscoverySearch
  \/ DiscoverySearchEnds
  \/ DiscoverySave

DiscoverySpec == DiscoveryInit /\ [][DiscoveryNext]_vars

\* ---------------------------------------------------------------------------
\* One run of either kind, to its end
\* ---------------------------------------------------------------------------

\* one process is started: an ingestion script (run "A") or the discovery script
TerminationInit ==
  \/ SoloInit
  \/ /\ run = [r \in Runs |-> [InitRun("general") EXCEPT !.pc = "off"]]
     /\ reports = <<>>
     /\ faults = NoFaults
     /\ overlap = FALSE
     /\ tx = TxIdle
     /\ fl = FlIdle
     /\ co = CoIdle
     /\ dc \in { [DcIdle EXCEPT !.pc = "start", !.world = w, !.hotels = w.hotelsBefore] :
                 w \in DiscoveryWorlds }
     /\ xi = XiIdle
     /\ pf = PfIdle

TerminationNext == Next \/ DiscoveryNext

\* every awaited call settles (with a value or an error) and the script's next
\* step is then taken
TerminationSpec ==
  TerminationInit /\ [][TerminationNext]_vars /\ WF_vars(Next) /\ WF_vars(DiscoveryNext)

\* ---------------------------------------------------------------------------
\* A cohort with two hotels that TripAdvisor resolves to one location
\* ---------------------------------------------------------------------------

\* two rows of the hotels table whose names the search answers with the same
\* first location
TwinCohort ==
  << [name |-> "Grand Hyatt Melbourne", google_place_id |-> "p1", tripAdvisorId |-> NullValue],
     [name |-> "Hyatt on Collins", google_place_id |-> "p5", tripAdvisorId |-> NullValue] >>

\* the general script has loaded this cohort and is at its first hotel
TwinInit ==
  /\ run = [r \in Runs |->
              IF r = "A" THEN ToHotel([InitRun("general") EXCEPT !.dbHotels = TwinCohort], 1)
              ELSE [InitRun("general") EXCEPT !.pc = "off"]]
  /\ reports = <<>>
  /\ faults = NoFaults
  /\ overlap = FALSE
  /\ tx = TxIdle
  /\ fl = FlIdle
  /\ co = CoIdle
  /\ dc = DcIdle
  /\ xi = XiIdle
  /\ pf = PfIdle

\* the hotel loop of the run
TwinNext ==
  \E r \in Runs :
    \/ SearchHotelTripAdvisor(r)
    \/ FetchTripAdvisorReviews(r)
    \/ FetchGoogleReviewsAll(r)
    \/ Dedup(r)
    \/ Transform(r)
    \/ Write(r)

TwinSpec == TwinInit /\ [][TwinNext]_vars

\* ---------------------------------------------------------------------------
\* External review ids
\* ---------------------------------------------------------------------------

\* the characters of provider-issued identifiers that matter for the ids
IdAlphabet == {"a", "_"}

\* place ids, and review ids of either provider
NativeIds == UNION {[1..n -> IdAlphabet] : n \in 1..MaxIdLen}

\* GoogleReview.name: places/{place id}/reviews/{review id}
GoogleReviewName(placeId, reviewId) == <<"places/">> \o placeId \o <<"/reviews/">> \o reviewId

\* a review as its provider identifies it
NativeReviews ==
  {[source |-> "tripadvisor", place |-> <<>>, review |-> id] : id \in NativeIds}
    \cup {[source |-> "google", place |-> p, review |-> id] : p \in NativeIds, id \in NativeIds}

\* the external review id the adapters give a review
ExternalIdOf(review) ==
  IF review.source = "tripadvisor" THEN TripAdvisorExternalId(review.review)
  ELSE GoogleExternalId(GoogleReviewName(review.place, review.review))

ExternalIdInit ==
  /\ run = [r \in Runs |-> InitRun("general")]
  /\ reports = <<>>
  /\ faults = NoFaults
  /\ overlap = FALSE
  /\ tx = TxIdle
  /\ fl = FlIdle
  /\ co = CoIdle
  /\ dc = DcIdle
  /\ xi \in { [XiIdle EXCEPT !.pc = "fetch", !.reviews = <<a, b>>] :
              a \in NativeReviews, b \in NativeReviews }
  /\ pf = PfIdle

\* the two reviews are fetched and get their ids
ExternalIdFetch ==
  /\ xi.pc = "fetch"
  /\ xi' = [xi EXCEPT !.pc = "fetched",
                      !.ids = <<ExternalIdOf(xi.reviews[1]), ExternalIdOf(xi.reviews[2])>>]
  /\ UNCHANGED <<run, reports, faults, overlap, tx, fl, co, dc, pf>>

\* the two reviews are fetched once more
ExternalIdFetchAgain ==
  /\ xi.pc = "fetched"
  /\ xi' = [xi EXCEPT !.pc = "refetched",
                      !.again = <<ExternalIdOf(xi.reviews[1]), ExternalIdOf(xi.reviews[2])>>]
  /\ UNCHANGED <<run, reports, faults, overlap, tx, fl, co, dc, pf>>

ExternalIdNext == ExternalIdFetch \/ ExternalIdFetchAgain

ExternalIdSpec == ExternalIdInit /\ [][ExternalIdNext]_vars

\* ---------------------------------------------------------------------------
\* Display names (data service)
\* ---------------------------------------------------------------------------

MAX_NICKNAME_LENGTH == 15

\* String.prototype.replace(/\s/g, '')
RemoveWhitespace(s) == SelectSeq(s, LAMBDA c : ~IsSpace(c))

\* seeded fault: the name is trimmed, inner whitespace stays
ValidateNicknameTrimOnly(nickname) ==
  LET cleaned == Trim(nickname)
  IN IF cleaned = <<>>
       THEN [valid |-> FALSE, cleaned |-> cleaned, error |-> "Nickname is required"]
     ELSE IF Len(cleaned) > MAX_NICKNAME_LENGTH
       THEN [valid |-> FALSE, cleaned |-> Slice0(cleaned, MAX_NICKNAME_LENGTH),
             error |-> "Nickname must be 15 characters or less"]
     ELSE [valid |-> TRUE, cleaned |-> cleaned, error |-> "none"]

\* validateNickname
ValidateNickname(nickname) ==
  LET cleaned == RemoveWhitespace(Trim(nickname))
  IN IF cleaned = <<>>
       THEN [valid |-> FALSE, cleaned |-> cleaned, error |-> "Nickname is required"]
     ELSE IF Len(cleaned) > MAX_NICKNAME_LENGTH
       THEN [valid |-> FALSE, cleaned |-> Slice0(cleaned, MAX_NICKNAME_LENGTH),
             error |-> "Nickname must be 15 characters or less"]
     ELSE [valid |-> TRUE, cleaned |-> cleaned, error |-> "none"]

\* n letters
Letters(n) == [i \in 1..n |-> "a"]

\* display names a user may enter: letters, with or without whitespace around
\* and inside
DisplayNames ==
  { lead \o Letters(n) \o mid \o Letters(k) \o trail :
      lead \in {<<>>, <<" ">>}, trail \in {<<>>, <<"\n">>},
      mid \in {<<>>, <<" ">>, <<"\t", " ">>},
      n \in 0..MaxNickLetters, k \in 0..MaxNickLetters }

Users == {"user-1", "user-2"}

\* the profiles table before the update
ProfilesBefore ==
  { {}, {[id |-> "user-1", display_name |-> <<"a", "a">>, updated_at |-> 0]} }

\* what the store does with the upsert
UpsertOutcomes == {"ok", "error", "throws"}

\* client.from('profiles').upsert(row): the row replaces the one with its id
ProfilesUpsert(profiles, row) ==
  {p \in profiles : p.id # row.id} \cup {row}

ProfileInit ==
  /\ run = [r \in Runs |-> InitRun("general")]
  /\ reports = <<>>
  /\ faults = NoFaults
  /\ overlap = FALSE
  /\ tx = TxIdle
  /\ fl = FlIdle
  /\ co = CoIdle
  /\ dc = DcIdle
  /\ xi = XiIdle
  /\ pf \in { [PfIdle EXCEPT !.pc = "idle", !.profiles = ps] : ps \in ProfilesBefore }

\* updateProfileDisplayName(userId, displayName)
UpdateProfileDisplayName ==
  /\ pf.pc = "idle"
  /\ \E userId \in Users, displayName \in DisplayNames, outcome \in UpsertOutcomes :
       LET validation == ValidateNickname(displayName)
           row == [id |-> userId, display_name |-> validation.cleaned, updated_at |-> Now]
       IN pf' = [pf EXCEPT
            !.pc = "done",
            !.userId = userId,
            !.displayName = displayName,
            !.validation = validation,
            !.profiles = IF validation.valid /\ outcome = "ok"
                           THEN ProfilesUpsert(@, row) ELSE @,
            !.result = IF ~validation.valid
                         THEN [success |-> FALSE, error |-> validation.error]
                       ELSE IF outcome = "ok" THEN [success |-> TRUE, error |-> "none"]
                       ELSE IF outcome = "error" THEN [success |-> FALSE, error |-> "store error"]
                       ELSE [success |-> FALSE, error |-> "exception"]]
  /\ UNCHANGED <<run, reports, faults, overlap, tx, fl, co, dc, xi>>

ProfileNext == UpdateProfileDisplayName

ProfileSpec == ProfileInit /\ [][ProfileNext]_vars

\* ---------------------------------------------------------------------------
\* The reports as the application shows them (data service)
\* ---------------------------------------------------------------------------

\* the translation tables the view is built with, by the two labels it reads;
\* NullValue stands for a key the table does not have
TranslationTables ==
  [anonymous : {NullValue, "", "Anonymous", "Ni Ming"},
   guestPrefix : {NullValue, "", "Guest", "Fang Ke"}]

\* a || b on strings: null and the empty string give b
OrElse(a, b) == IF a = NullValue \/ a = "" THEN b ELSE a

\* seeded fault: the system reporter name is looked at before is_anonymous
GetReporterDisplayNameSystemFirst(report, translations) ==
  IF report.source = "system" THEN OrElse(report.system_reporter_name, "StayLive Assistant")
  ELSE IF report.is_anonymous = TRUE THEN OrElse(translations.anonymous, "Anonymous")
  ELSE OrElse(report.profiles.display_name, OrElse(translations.guestPrefix, "Guest"))

\* getReporterDisplayName
GetReporterDisplayName(report, translations) ==
  IF report.is_anonymous = TRUE
    THEN OrElse(translations.anonymous, "Anonymous")
  ELSE IF report.source = "system" /\ OrElse(report.system_reporter_name, NullValue) # NullValue
    THEN report.system_reporter_name
  ELSE IF OrElse(report.profiles.display_name, NullValue) # NullValue
    THEN report.profiles.display_name
  ELSE IF report.source = "system"
    THEN "StayLive Assistant"
  ELSE OrElse(translations.guestPrefix, "Guest")

\* mapReportsToViewModel
MapReportsToViewModel(data, translations) ==
  [j \in 1..Len(data) |->
     [hotel |-> OrElse(data[j].hotel_name, "Unknown"),
      issueKey |-> OrElse(data[j].issue_key, "other"),
      severity |-> OrElse(data[j].severity, "warning"),
      description |-> OrElse(data[j].description, ""),
      timestamp |-> data[j].created_at,
      reporterName |-> GetReporterDisplayName(data[j], translations),
      verified |-> data[j].is_verified]]

\* the rows a select on reports answers with: every column of the row, and
\* with the join the profile of reporter_id, which a row without a reporter
\* does not have; a profile that is null or left out reads as one without a
\* display name. The order by created_at permutes the rows and is left out
SelectReports(rows, withProfiles) ==
  [j \in 1..Len(rows) |->
     [f \in DOMAIN rows[j] \cup {"profiles"} |->
        IF f = "profiles" THEN [display_name |-> NullValue] ELSE rows[j][f]]]

\* fetchFullDataset: the select with the join, on its error the select
\* without it, and no reports when that fails too
FetchFullDataset(rows, joinFails, fallbackFails, translations) ==
  IF ~joinFails THEN MapReportsToViewModel(SelectReports(rows, TRUE), translations)
  ELSE IF ~fallbackFails THEN MapReportsToViewModel(SelectReports(rows, FALSE), translations)
  ELSE <<>>

\* ---------------------------------------------------------------------------
\* Properties
\* ---------------------------------------------------------------------------

\* the review the loop of run r is at
CurrentReviewId(r) == run[r].reviews[run[r].k].id

InStore(id) == \E j \in 1..Len(reports) : reports[j].external_review_id = id

BothRunsDone == run["A"].pc = "done" /\ run["B"].pc = "done"

SameScript == run["A"].script = run["B"].script

\* the run took a step of its own
Stepped(r) == run'[r] # run[r]

C2_OneRecordPerReview ==
  \A j1, j2 \in 1..Len(reports) :
    reports[j1].external_review_id = reports[j2].external_review_id => j1 = j2

\* a second run met a review already stored, its lookup failed, and the insert
\* was attempted and refused
C2_Witness ==
  /\ BothRunsDone
  /\ Len(reports) >= 2
  /\ run["B"].totalReviews > run["B"].skippedReviews + run["B"].successfulReports
  /\ faults.store = 1
  /\ run["A"].totalReviews = run["A"].successfulReports

\* C3: with two overlapping runs the table still holds at most one row per
\* external review id; every row was counted by exactly one run (a refused
\* insert is not counted), and no run is aborted once it processes reviews.
C3_ConcurrentWriters ==
  /\ \A j1, j2 \in 1..Len(reports) :
       reports[j1].external_review_id = reports[j2].external_review_id => j1 = j2
  /\ run["A"].successfulReports + run["B"].successfulReports = Len(reports)
  /\ \A r \in Runs : run[r].pc = "aborted" => run[r].totalReviews = 0

\* both runs passed the Dedup Gate for the same review, one insert lost
C3_Witness ==
  /\ BothRunsDone /\ faults = NoFaults
  /\ run["A"].skippedReviews = 0 /\ run["B"].skippedReviews = 0
  /\ run["A"].totalReviews >= 1 /\ run["B"].totalReviews >= 1
  /\ run["A"].successfulReports + run["B"].successfulReports
       < run["A"].totalReviews + run["B"].totalReviews

\* C4 as stated: a review whose external id is in the store is skipped: no
\* model call, no insert, duplicates-skipped plus one.
C4_AsStated ==
  [][\A r \in Runs :
       (run[r].pc = "dedup" /\ Stepped(r) /\ InStore(CurrentReviewId(r)))
         => /\ run'[r].pc # "transform"
            /\ run'[r].skippedReviews = run[r].skippedReviews + 1]_vars

\* C4 amended: the Transformer is called only from the step after a Dedup
\* lookup that returned no row (or failed); when the lookup succeeds and the
\* external id is in the store, the review is skipped: no model call, no
\* insert, duplicates-skipped plus exactly one.
C4_DedupBeforeTransform ==
  [][\A r \in Runs :
       /\ (run'[r].pc = "transform" /\ Stepped(r))
            => /\ run[r].pc = "dedup"
               /\ ~InStore(CurrentReviewId(r)) \/ faults'.store = faults.store + 1
       /\ (run'[r].request # run[r].request /\ run'[r].request # NoRequest)
            => run[r].pc = "transform"
       /\ (run[r].pc = "dedup" /\ Stepped(r) /\ InStore(CurrentReviewId(r))
             /\ faults' = faults)
            => /\ run'[r].pc # "transform"
               /\ run'[r].request = NoRequest
               /\ reports' = reports
               /\ run'[r].skippedReviews = run[r].skippedReviews + 1
               /\ run'[r].totalReviews = run[r].totalReviews + 1]_vars

C4_Witness ==
  /\ run["A"].pc = "done" /\ run["A"].successfulReports >= 1
  /\ run["B"].skippedReviews >= 1
  /\ run["B"].successfulReports = 0
  /\ faults = NoFaults

\* the object the reply holds, as the transformer's regex and JSON.parse see it
ReplyMatch(reply) == JsonMatch(ContentOf(reply))
ReplyParsed(reply) == JsonParse(ReplyMatch(reply))

ReplyHasObject(reply) ==
  /\ reply.kind \in {"content", "no_choices"}
  /\ ReplyMatch(reply) # <<>>
  /\ ReplyParsed(reply).ok

\* the reply holds an object whose severity member is the string critical and
\* whose category does not make validateIssueKey throw
SaysCritical(reply) ==
  /\ ReplyHasObject(reply)
  /\ ReplyParsed(reply).obj.severity = JStr(SevCritical)
  /\ ReplyParsed(reply).obj.issueKey.t # "num"

C6_AnonymousIffNoReporterName ==
  \A j \in 1..Len(reports) :
    reports[j].source = "system"
      => (reports[j].is_anonymous <=> reports[j].system_reporter_name = NullValue)

C6_Witness ==
  /\ \E j \in 1..Len(reports) :
       reports[j].is_anonymous /\ reports[j].system_reporter_name = NullValue
  /\ \E j \in 1..Len(reports) :
       ~reports[j].is_anonymous /\ reports[j].system_reporter_name = SYSTEM_REPORTER_NAME

\* C7: the anonymity decision is taken in the Dedup step, before the model
\* call; it is not changed by the model call; the request asks for the first
\* person exactly when it is true, and the row written carries the same value.
C7_VoiceMatchesAnonymity ==
  [][\A r \in Runs :
       /\ (run[r].pc = "transform" /\ Stepped(r) /\ run'[r].pc = "write")
            => /\ run'[r].isAnonymous = run[r].isAnonymous
               /\ run'[r].request.perspective = "FIRST_PERSON" <=> run[r].isAnonymous
               /\ run'[r].request.perspective = "THIRD_PERSON" <=> ~run[r].isAnonymous
       /\ (run[r].pc = "write" /\ Stepped(r) /\ Len(reports') > Len(reports))
            => (reports'[Len(reports')].is_anonymous
                  <=> run[r].request.perspective = "FIRST_PERSON")]_vars

\* an anonymous row is stored and a first-person request is waiting to be written
C7_Witness ==
  /\ \E j \in 1..Len(reports) : reports[j].is_anonymous
  /\ \E r \in Runs :
       /\ run[r].pc = "write"
       /\ run[r].isAnonymous
       /\ run[r].request.perspective = "FIRST_PERSON"

\* the category member of the object in the reply handed to the transformer
TxKey == ReplyParsed(tx.reply).obj.issueKey

\* C8 as stated: a category not in the enumeration when compared without
\* regard to case, and without trimming, comes out as other.
C8_AsStated ==
  (tx.pc # "call" /\ ReplyHasObject(tx.reply) /\ TxKey.t = "str"
     /\ ToLowerCase(TxKey.s) \notin VALID_ISSUE_KEYS)
    => tx.result.issueKey = KeyOther

\* C8 amended: the category returned is always one of the eleven; a category
\* that is missing, or is not in the enumeration when compared without regard
\* to case after trimming surrounding white space, comes out as other, and the
\* call returns (the review is not rejected).
C8_CategoryCoercion ==
  tx.pc # "call"
    => /\ tx.pc = "returned"
       /\ tx.result.issueKey \in VALID_ISSUE_KEYS
       /\ (ReplyHasObject(tx.reply)
             /\ \/ TxKey.t \in {"undef", "null"}
                \/ TxKey.t = "str" /\ Trim(ToLowerCase(TxKey.s)) \notin VALID_ISSUE_KEYS)
            => tx.result.issueKey = KeyOther

C8_Witness ==
  /\ tx.pc = "returned"
  /\ ReplyHasObject(tx.reply)
  /\ TxKey = JStr(<<"a", "a">>)
  /\ tx.result.issueKey = KeyOther

\* C9: the severity returned is critical only when the reply's object holds
\* the literal severity critical; any other value, a missing value, an
\* unparsable reply or a failed call gives warning.
C9_CriticalOnlyIfLiteral ==
  tx.pc # "call"
    => /\ tx.result.severity \in {SevCritical, SevWarning}
       /\ tx.result.severity = SevCritical
            => /\ ReplyHasObject(tx.reply)
               /\ ReplyParsed(tx.reply).obj.severity = JStr(SevCritical)

C9_Witness ==
  /\ tx.pc = "returned"
  /\ ReplyHasObject(tx.reply)
  /\ ReplyParsed(tx.reply).obj.severity = JStr(SevCritical)
  /\ tx.result.severity = SevCritical

\* a failed call, or a reply in which no JSON object can be parsed
ReplyFailed(reply) ==
  \/ reply.kind \in {"network_error", "http_error", "body_not_json"}
  \/ ReplyMatch(reply) = <<>>
  \/ ~ReplyParsed(reply).ok

\* C10 as stated: every failure gives the same fixed fallback object.
C10_AsStated ==
  (tx.pc # "call" /\ ReplyFailed(tx.reply))
    => /\ tx.pc = "returned"
       /\ tx.result = CatchFallback

\* C10 amended: the call never raises; every failure gives category other and
\* severity warning; the insight is the fixed sentence "Guest reported concerns
\* during their stay." for a network failure, a non-2xx status, an unreadable
\* body or invalid JSON between the braces, but for a reply with no
\* brace-delimited text it is the reply's first 500 characters, or "Guest
\* reported concerns during stay." when the reply is empty.
C10_FallbackOnFailure ==
  tx.pc # "call"
    => /\ tx.pc = "returned"
       /\ ReplyFailed(tx.reply)
            => /\ tx.result.issueKey = KeyOther
               /\ tx.result.severity = SevWarning
               /\ tx.result.insight =
                    IF \/ tx.reply.kind \in {"network_error", "http_error", "body_not_json"}
                       \/ ReplyMatch(tx.reply) # <<>>
                      THEN InsightDuringTheirStay
                    ELSE IF ContentOf(tx.reply) = <<>> THEN InsightDuringStay
                    ELSE SubSeq(ContentOf(tx.reply), 1, Min(Len(ContentOf(tx.reply)), SLICE_LIMIT))

C10_Witness ==
  /\ tx.pc = "returned"
  /\ tx.reply.kind = "http_error"
  /\ tx.result = CatchFallback

\* the position in the provider's list of the p-th review that was kept
KeptIndex(p) ==
  CHOOSE j \in 1..Len(fl.input) : ToString(j) = fl.kept[p].id[Len(fl.kept[p].id)]

\* the review at position j is negative and within the age window of the script
Qualifies(j) ==
  /\ fl.input[j].rating <= MAX_REVIEW_RATING
  /\ \/ MaxReviewAgeDays(fl.script) = 0
     \/ fl.input[j].date >= Now - MaxReviewAgeDays(fl.script)

Qualifying == {j \in 1..Len(fl.input) : Qualifies(j)}

\* the kept reviews are the reviews at the positions S, in the input's order
KeptAre(S) ==
  /\ Len(fl.kept) = Cardinality(S)
  /\ \A p \in 1..Len(fl.kept) :
       /\ KeptIndex(p) \in S
       /\ Cardinality({m \in S : m <= KeptIndex(p)}) = p
       /\ fl.kept[p].rating = fl.input[KeptIndex(p)].rating
       /\ fl.kept[p].publishDate = fl.input[KeptIndex(p)].date

\* C11 as stated: the reviews that go on to processing are exactly those of
\* the provider's list with rating <= maxRating and (maxAgeDays = 0 or
\* publishDate >= now - maxAgeDays), in the input's order, for any list.
C11_AsStated == fl.pc = "returned" => KeptAre(Qualifying)

\* the qualifying positions that pass the per-hotel cap: TripAdvisor's list
\* is filtered and then cut, Google's list is cut and then filtered
Passed ==
  IF fl.provider = "tripadvisor"
    THEN {j \in Qualifying : Cardinality({m \in Qualifying : m < j}) < MAX_REVIEWS_PER_HOTEL}
    ELSE {j \in Qualifying : j <= MAX_REVIEWS_PER_HOTEL}

\* C11 amended: a review is kept iff rating <= maxRating and (maxAgeDays = 0
\* or publishDate >= now - maxAgeDays), order preserved, up to the per-hotel
\* cap of 20: of TripAdvisor's list the first 20 qualifying reviews go on, of
\* Google's list the qualifying ones among the first 20.  For a list of at
\* most 20 reviews, maxRating 3 and maxAgeDays 0, the reviews that go on are
\* exactly those with rating <= 3, whatever their age.
C11_FilterKeeps ==
  fl.pc = "returned"
    => /\ KeptAre(Passed)
       /\ Len(fl.input) <= MAX_REVIEWS_PER_HOTEL => KeptAre(Qualifying)
       /\ (Len(fl.input) <= MAX_REVIEWS_PER_HOTEL /\ fl.script = "top")
            => KeptAre({j \in 1..Len(fl.input) : fl.input[j].rating <= MAX_REVIEW_RATING})

\* no age limit: an old negative review is kept, a positive one is dropped,
\* and two reviews are kept in order
C11_Witness ==
  /\ fl.pc = "returned" /\ fl.script = "top"
  /\ Len(fl.input) = 3 /\ Len(fl.kept) = 2
  /\ fl.input[1].rating = MAX_REVIEW_RATING
  /\ fl.input[1].date < Now - GENERAL_MAX_REVIEW_AGE_DAYS
  /\ fl.input[2].rating > MAX_REVIEW_RATING
  /\ KeptIndex(1) = 1 /\ KeptIndex(2) = 3

\* the hotel the loop of run r is at
CurrentHotel(r) == run[r].dbHotels[run[r].i]

\* C12: in the general script, a search that gives no location (no match or
\* a failed call) is followed by the Google fetch for the same hotel, whose
\* reviews carry that hotel's place id; a search that gives a location is
\* followed by the TripAdvisor fetch; and every later hotel starts with the
\* search again, whatever happened for earlier hotels.
C12_FallbackPerVenue ==
  [][\A r \in Runs :
       /\ (run[r].pc = "search" /\ Stepped(r))
            => \/ /\ run'[r].pc = "fetchTA"
                  /\ run'[r].locationId = TaLocationOf(CurrentHotel(r).name)
                  /\ run'[r].locationId # NullValue
                  /\ run'[r].i = run[r].i
               \/ /\ run'[r].pc = "fetchGoogle"
                  /\ run'[r].i = run[r].i
                  /\ \/ TaLocationOf(CurrentHotel(r).name) = NullValue
                     \/ faults'.provider = faults.provider + 1
       /\ (run[r].pc = "fetchGoogle" /\ Stepped(r))
            => \A j \in 1..Len(run'[r].reviews) :
                 /\ run'[r].i = run[r].i
                 /\ run'[r].reviews[j].source = "google"
                 /\ run'[r].reviews[j].id[2] = CurrentHotel(r).google_place_id
       /\ (run[r].script = "general" /\ run[r].i >= 1 /\ run'[r].i # run[r].i
             /\ run'[r].pc # "done")
            => run'[r].pc = "search" /\ run'[r].i > run[r].i]_vars

\* a report came from the fallback for the first hotel and the run is at the
\* search for the second hotel
C12_Witness ==
  /\ run["A"].script = "general"
  /\ run["A"].pc = "search" /\ run["A"].i = 2
  /\ \E j \in 1..Len(reports) :
       /\ reports[j].hotel_name = run["A"].dbHotels[1].name
       /\ reports[j].external_review_id[1] = "google_"

\* the step of run r was a call of a review provider that failed
ProviderCallFailed(r) ==
  /\ run[r].pc \in {"search", "fetchTA", "fetchGoogle"}
  /\ Stepped(r)
  /\ faults'.provider = faults.provider + 1

\* C13: whatever way a call of a review provider fails (HTTP status, thrown
\* error, unreadable or malformed body, absent data), the adapter returns
\* null or an empty list and nothing reaches the driver as an exception: a
\* failed search leads to the fallback for the same hotel, a failed review
\* fetch yields no reviews and the run goes on with the next hotel.
C13_AdaptersFailSoft ==
  [][\A r \in Runs :
       /\ (run[r].pc \in {"search", "fetchTA", "fetchGoogle"} /\ Stepped(r))
            => run'[r].pc # "aborted"
       /\ (ProviderCallFailed(r) /\ run[r].pc = "search")
            => /\ run'[r].pc = "fetchGoogle"
               /\ run'[r].locationId = NullValue
       /\ (ProviderCallFailed(r) /\ run[r].pc \in {"fetchTA", "fetchGoogle"})
            => /\ run'[r].reviews = <<>>
               /\ run'[r].totalReviews = run[r].totalReviews
               /\ \/ run'[r].pc = "done" /\ run'[r].i = Len(run[r].dbHotels) + 1
                  \/ /\ run'[r].pc \in {"search", "fetchTA"}
                     /\ run'[r].i > run[r].i]_vars

\* the review fetch for the first hotel failed and the run is at the second
C13_Witness ==
  /\ run["A"].script = "general"
  /\ run["A"].pc = "search" /\ run["A"].i = 2
  /\ run["A"].totalReviews = 0
  /\ faults.provider = 1

\* the cohort has been chosen by the named selection function alone
ChosenBy(fn) == co.pc \in {"selected", "exit1"} /\ co.calls = {fn}

\* the store holds an issue record about the hotel
HasIssueRecord(h) == \E n \in 1..Len(co.reports) : co.reports[n].hotel_name = h.name

\* C14 (as stated): in unprocessed mode every hotel of the cohort has no issue
\* record in the store, records written by earlier runs of the pipeline included
C14_AsStated ==
  ChosenBy("fetchUnprocessedHotels") =>
    \A j \in 1..Len(co.cohort) : ~HasIssueRecord(co.cohort[j])

\* C15: whatever the arguments, exactly one of the three selection functions
\* produces the cohort: the unprocessed one when --unprocessed is given, else
\* the random one when --random or --random=N is given, else the one that
\* reads all hotels up to MAX_HOTELS; without arguments it is the last
C15_OneCohortMode ==
  co.pc \in {"selected", "exit1"} =>
    /\ Cardinality(co.calls) = 1
    /\ co.calls \subseteq {"fetchUnprocessedHotels", "fetchRandomHotels", "fetchHotelsFromDatabase"}
    /\ co.args = <<>> => co.calls = {"fetchHotelsFromDatabase"}
    /\ (\E j \in 1..Len(co.args) : co.args[j] = Flag("--unprocessed"))
         => co.calls = {"fetchUnprocessedHotels"}
    /\ (ChosenBy("fetchHotelsFromDatabase") /\ co.storeOk)
         => /\ co.cohort = WithPlaceId(VenueRows)
            /\ Len(co.cohort) <= MAX_HOTELS
    /\ ChosenBy("fetchRandomHotels")
         => \E j \in 1..Len(co.args) : co.args[j].name = "--random"

C15_Witness ==
  /\ co.pc = "selected"
  /\ co.args = <<Flag("--random"), Flag("--unprocessed")>>
  /\ co.calls = {"fetchUnprocessedHotels"}

Distinct(a) == \A j, m \in 1..Len(a) : a[j] = a[m] => j = m
Members(a) == {a[j] : j \in 1..Len(a)}

\* C16 (as stated): in random mode with requested size N the cohort has exactly
\* min(N, number of known hotels) hotels, all distinct and all known
C16_AsStated ==
  ChosenBy("fetchRandomHotels") =>
    /\ ~IsNaN(co.count)
    /\ Len(co.cohort) = Min(co.count.n, Len(WithPlaceId(VenueRows)))
    /\ Distinct(co.cohort)
    /\ Members(co.cohort) \subseteq Members(WithPlaceId(VenueRows))

\* C16 (amended): in random mode, when the hotels query succeeds and the
\* requested size N is a non-negative integer, the cohort has exactly
\* min(N, number of known hotels) hotels, all distinct and all known; a
\* negative N leaves all but the last |N| of the shuffled hotels, and a size
\* that is not a number or a failed query leaves no cohort and the run exits
\* with code 1
C16_RandomSample ==
  ChosenBy("fetchRandomHotels") =>
    /\ Distinct(co.cohort)
    /\ Members(co.cohort) \subseteq Members(WithPlaceId(VenueRows))
    /\ (co.storeOk /\ ~IsNaN(co.count) /\ co.count.n >= 0)
         => Len(co.cohort) = Min(co.count.n, Len(WithPlaceId(VenueRows)))
    /\ (co.storeOk /\ ~IsNaN(co.count) /\ co.count.n < 0)
         => Len(co.cohort) = IF Len(WithPlaceId(VenueRows)) + co.count.n < 0 THEN 0
                             ELSE Len(WithPlaceId(VenueRows)) + co.count.n
    /\ (~co.storeOk \/ IsNaN(co.count)) => co.cohort = <<>>
    /\ co.cohort = <<>> <=> co.pc = "exit1"

C16_Witness ==
  /\ ChosenBy("fetchRandomHotels")
  /\ co.count = Num(1)
  /\ Len(co.cohort) = 1
  /\ co.cohort[1] = VenueRows[2]

\* run r ends with exit code 1 in this step
Aborts(r) == run[r].pc # "aborted" /\ run'[r].pc = "aborted"

C18_AsStated == \A r \in Runs : ~run[r].backToBack

\* the place of a step within the handling of one hotel or one review
StepRank(pc) ==
  CASE pc = "idle" -> 0
    [] pc = "cohort" -> 1
    [] pc = "search" -> 2
    [] pc \in {"fetchTA", "fetchGoogle"} -> 3
    [] pc = "dedup" -> 4
    [] pc = "transform" -> 5
    [] pc = "write" -> 6
    [] OTHER -> 7

\* position s comes before position t: an earlier hotel, or the same hotel
\* and an earlier review, or the same review and an earlier step
ComesBefore(s, t) ==
  \/ s.i < t.i
  \/ s.i = t.i /\ s.k < t.k
  \/ s.i = t.i /\ s.k = t.k /\ StepRank(s.pc) < StepRank(t.pc)

\* C19: no call is made again: every step of a run moves it to a later
\* position (hotel, review, step) or ends it, so each hotel has at most one
\* search and one fetch per provider, and each review at most one lookup, one
\* model call and one insert, whatever the calls return; a hotel for which
\* the search found a match never gets the secondary fetch
C19_NoRetry ==
  [][\A r \in Runs :
       run'[r] # run[r] =>
         /\ Finished(r)' \/ ComesBefore(run[r], run'[r])
         /\ (run[r].pc = "fetchTA" /\ ~Finished(r)')
              => run'[r].pc \in {"dedup", "search", "fetchTA"}
         /\ (run[r].pc \in {"dedup", "transform", "write"} /\ run'[r].i = run[r].i)
              => run'[r].reviews = run[r].reviews]_vars

C19_Witness ==
  /\ run["A"].pc = "done"
  /\ faults.store = 1
  /\ run["A"].totalReviews > run["A"].skippedReviews + run["A"].successfulReports

\* a review that was counted as seen and is not yet skipped or written
InFlight(st) == IF st.pc \in {"transform", "write"} THEN 1 ELSE 0

\* reviews seen that are neither skipped, nor written, nor in flight
Unaccounted(st) ==
  st.totalReviews - st.skippedReviews - st.successfulReports - InFlight(st)

\* rows the store gains in this step
RowsInserted == Len(reports') - Len(reports)

\* C20: the counters of a run start at zero and only grow, over the whole
\* cohort; in every step of a run, records written grows by the number of rows
\* the step inserted, and reviews seen exceeds skipped + written + in flight
\* by one more exactly when an insert attempt failed; a finished run, whose
\* summary is printed, never changes its counters again
C20_Counters ==
  /\ \A r \in Runs : Unaccounted(run[r]) = 0 /\ run[r].successfulReports = 0
  /\ [][/\ RowsInserted \in {0, 1}
        /\ RowsInserted = 1 => \E q \in Runs : run'[q] # run[q]
        /\ \A r \in Runs :
             /\ run'[r] # run[r] =>
                  /\ run'[r].successfulReports - run[r].successfulReports = RowsInserted
                  /\ Unaccounted(run'[r]) - Unaccounted(run[r]) =
                       IF run[r].pc = "write" /\ RowsInserted = 0 THEN 1 ELSE 0
                  /\ run'[r].totalReviews >= run[r].totalReviews
                  /\ run'[r].skippedReviews >= run[r].skippedReviews
             /\ Finished(r) => run'[r] = run[r]]_vars

C20_Witness ==
  /\ run["A"].pc = "done" /\ run["B"].pc = "done"
  /\ Unaccounted(run["A"]) = 1
  /\ run["A"].successfulReports > 0
  /\ run["B"].skippedReviews > 0
  /\ run["B"].successfulReports > 0

\* the publish dates the providers give for the review with an external id
PublishDatesOf(externalId) ==
  {TaReviews("155019")[j].published_date :
     j \in {m \in 1..NumReviews :
              <<"tripadvisor_">> \o TaReviews("155019")[m].id = externalId}}
    \cup
  UNION {{GoogleReviews(p)[j].publishTime :
            j \in {m \in 1..NumReviews :
                     <<"google_", p, "_", ToString(m)>> = externalId}} :
         p \in {"p1", "p2"}}

\* C21: every row the pipeline wrote has created_at equal to its
\* external_review_date, which is the publish date the provider gave for the
\* review, and not the time of the run
C21_CreatedAtIsPublishDate ==
  \A j \in 1..Len(reports) :
    /\ reports[j].created_at = reports[j].external_review_date
    /\ PublishDatesOf(reports[j].external_review_id) = {reports[j].created_at}
    /\ reports[j].created_at # Now

C21_Witness ==
  \E j \in 1..Len(reports) :
    /\ reports[j].created_at = Now - 40
    /\ reports[j].source = "system"

\* run r is past the review it was handling: at the next review of the same
\* hotel, at a later hotel, or at the end of the cohort
MovedOn(r) ==
  /\ run'[r].pc \in {"dedup", "search", "fetchTA", "done"}
  /\ \/ run'[r].i = run[r].i /\ run'[r].k = run[r].k + 1
     \/ run'[r].i > run[r].i

\* C22: a write step makes one insert attempt: the store gains at most one
\* row, at its end, and that row is the report's; when the store refuses it
\* (uniqueness violation, store error or exception) the rows are as before,
\* successfulReports is not incremented, and the run is at the next review;
\* successfulReports is incremented exactly when the row went in
C22_RejectedInsert ==
  [][\A r \in Runs :
       (run[r].pc = "write" /\ run'[r] # run[r]) =>
         /\ \/ reports' = reports
            \/ reports' = Append(reports, ReportRow(BuildReport(run[r])))
         /\ reports' = reports =>
              run'[r].successfulReports = run[r].successfulReports
         /\ reports' # reports =>
              run'[r].successfulReports = run[r].successfulReports + 1
         /\ MovedOn(r)
         /\ run'[r].totalReviews = run[r].totalReviews
         /\ run'[r].skippedReviews = run[r].skippedReviews]_vars

C22_Witness ==
  /\ run["A"].pc = "done" /\ run["B"].pc = "done"
  /\ run["A"].script = run["B"].script
  /\ run["A"].totalReviews > 0
  /\ run["A"].successfulReports = run["A"].totalReviews
  /\ run["B"].totalReviews = run["A"].totalReviews
  /\ run["B"].successfulReports = 0
  /\ run["B"].skippedReviews = run["B"].totalReviews - 1
  /\ Len(reports) = run["A"].successfulReports

\* every row of table a is a row of table b, at the same place and unchanged
KeepsRows(a, b) == Len(a) <= Len(b) /\ SubSeq(b, 1, Len(a)) = a

\* C23: a step of an ingestion run leaves every row of the reports table in
\* place and unchanged; rows are only added, by the write step, and every
\* added row is a system report
C23_InsertOnly ==
  [][/\ KeepsRows(reports, reports')
     /\ reports' # reports =>
          /\ \E r \in Runs : run[r].pc = "write" /\ run'[r] # run[r]
          /\ \A j \in (Len(reports) + 1)..Len(reports') : reports'[j].source = "system"]_vars

C23_Witness ==
  /\ run["A"].pc = "done" /\ run["B"].pc = "done"
  /\ run["A"].successfulReports > 0
  /\ run["B"].successfulReports > 0
  /\ run["B"].skippedReviews > 0

\* the place ids of the hotels table before the discovery run
PersistedBefore ==
  {dc.world.hotelsBefore[j].google_place_id : j \in 1..Len(dc.world.hotelsBefore)}

\* the positions of discoveredHotels that this step fills
NewlyRecorded == (Len(dc.discoveredHotels) + 1)..Len(dc'.discoveredHotels)

\* C24 (as stated): a place is recorded as newly discovered only if its id is
\* neither in the hotels table before the run nor recorded earlier in the run
C24_AsStated ==
  [][/\ KeepsRows(dc.discoveredHotels, dc'.discoveredHotels)
     /\ \A j \in NewlyRecorded :
          /\ dc'.discoveredHotels[j].google_place_id \notin PersistedBefore
          /\ \A m \in 1..(j - 1) :
               dc'.discoveredHotels[m].google_place_id # dc'.discoveredHotels[j].google_place_id]_vars

\* C24 (amended): a place is recorded as newly discovered only if it is a
\* result of the search, its id is not among the ids read from the hotels
\* table at the start of the run and it is not recorded earlier in the run;
\* the ids read are those of the table when the read succeeds and none when
\* it fails, so that after a failed read hotels of the table are recorded too
C24_RecordedOnlyIfUnknown ==
  [][/\ KeepsRows(dc.discoveredHotels, dc'.discoveredHotels)
     /\ dc.pc = "search" =>
          /\ dc'.existingHotelIds = dc.existingHotelIds
          /\ dc.existingHotelIds = IF dc.world.existingQueryFails THEN {} ELSE PersistedBefore
     /\ \A j \in NewlyRecorded :
          /\ dc.pc = "search"
          /\ \E n \in 1..MAX_RESULTS_PER_REQUEST :
               dc'.discoveredHotels[j].google_place_id = Places(dc.i)[n].id
          /\ dc'.discoveredHotels[j].google_place_id \notin dc.existingHotelIds
          /\ \A m \in 1..(j - 1) :
               dc'.discoveredHotels[m].google_place_id # dc'.discoveredHotels[j].google_place_id]_vars

C24_Witness ==
  /\ dc.pc = "search" /\ dc.i = 3
  /\ dc.world.hotelsBefore # <<>> /\ ~dc.world.existingQueryFails
  /\ Len(dc.discoveredHotels) = 2 * FreshPerSearch

\* C25: a search location is queried only while fewer hotels than the target
\* count are discovered; once the target is reached the next step leaves the
\* search loop with no further query and the run saves what it discovered
C25_StopsAtTarget ==
  [][/\ dc'.queried # dc.queried => Len(dc.discoveredHotels) < TARGET_HOTEL_COUNT
     /\ (dc.pc = "search" /\ Len(dc.discoveredHotels) >= TARGET_HOTEL_COUNT /\ dc' # dc) =>
          /\ dc'.queried = dc.queried
          /\ dc'.discoveredHotels = dc.discoveredHotels
          /\ dc'.pc = "save"
     /\ Len(dc.discoveredHotels) >= TARGET_HOTEL_COUNT =>
          Len(dc'.discoveredHotels) = Len(dc.discoveredHotels)]_vars

C25_Witness ==
  /\ dc.pc = "save" /\ dc.index > 0
  /\ Len(dc.discoveredHotels) >= TARGET_HOTEL_COUNT
  /\ Len(dc.queried) < SearchLocationCount
  /\ dc.i <= SearchLocationCount

\* the search at the current location fails in one of the ways the function
\* handles: an error payload, a rejected fetch, a body that is not JSON
SearchFails ==
  /\ dc.pc = "search" /\ dc'.queried # dc.queried
  /\ SearchKind(dc.world.searches, dc.i) \in {"error_payload", "network_error", "body_not_json"}

\* C26: a failed search adds no hotel and does not end the run: the loop is
\* at the next location; locations are queried in list order, none left
\* out; and the search loop is left only after the last location or with the
\* target count reached, unless a response cannot be read as a list
C26_FailedSearchSkipped ==
  [][/\ SearchFails =>
          /\ dc'.discoveredHotels = dc.discoveredHotels
          /\ dc'.pc = "search" /\ dc'.i = dc.i + 1
     /\ dc'.queried # dc.queried =>
          dc'.queried = Append(dc.queried, Len(dc.queried) + 1)
     /\ (dc.pc = "search" /\ dc'.pc \in {"save", "done"}) =>
          \/ Len(dc.queried) = SearchLocationCount
          \/ Len(dc.discoveredHotels) >= TARGET_HOTEL_COUNT
     /\ (dc.pc = "search" /\ dc'.pc = "aborted") =>
          SearchKind(dc.world.searches, dc.i) = "places_not_list"]_vars

C26_Witness ==
  /\ dc.world.searches = "thrown_at_5_6"
  /\ dc.pc = "save"
  /\ Len(dc.queried) = 30
  /\ Len(dc.discoveredHotels) >= TARGET_HOTEL_COUNT

\* C27 (as stated): every row the hotels table had before the discovery run is
\* still there and unchanged, a new hotel with the name of an existing one
\* included; the table only grows
C27_AsStated ==
  dc.pc # "idle" =>
    /\ Len(dc.hotels) >= Len(dc.world.hotelsBefore)
    /\ \A j \in 1..Len(dc.world.hotelsBefore) : dc.hotels[j] = dc.world.hotelsBefore[j]

\* s followed by an underscore starts t
UnderscorePrefix(s, t) ==
  Len(s) < Len(t) /\ SubSeq(t, 1, Len(s) + 1) = s \o <<"_">>

\* C28 (as stated): two different reviews never get the same external id
C28_AsStated ==
  (xi.pc = "refetched" /\ xi.reviews[1] # xi.reviews[2]) => xi.ids[1] # xi.ids[2]

\* C28 (the part that holds): a review gets the same id at every fetch; ids of different
\* sources differ; two TripAdvisor reviews with different ids, and two Google
\* reviews of the same place with different ids, get different external ids;
\* two Google reviews of different places get the same external id only when
\* the place id of one, followed by an underscore, starts the place id of the
\* other
C28_ExternalIds ==
  xi.pc = "refetched" =>
    LET a == xi.reviews[1]
        b == xi.reviews[2]
    IN /\ xi.again = xi.ids
       /\ a = b => xi.ids[1] = xi.ids[2]
       /\ a.source # b.source => xi.ids[1] # xi.ids[2]
       /\ (a.source = b.source /\ a.place = b.place /\ a.review # b.review)
            => xi.ids[1] # xi.ids[2]
       /\ (a # b /\ xi.ids[1] = xi.ids[2])
            => \/ UnderscorePrefix(a.place, b.place)
               \/ UnderscorePrefix(b.place, a.place)

C28_Witness ==
  /\ xi.pc = "refetched"
  /\ xi.reviews[1].source = "google" /\ xi.reviews[2].source = "google"
  /\ xi.reviews[1].place = xi.reviews[2].place
  /\ xi.reviews[1].review = <<"a">> /\ xi.reviews[2].review = <<"a", "_">>
  /\ xi.ids[1] # xi.ids[2]

\* C29: validateNickname answers valid only with a cleaned name that is not
\* empty, holds no whitespace and has at most 15 characters; and
\* updateProfileDisplayName changes the profiles table only when the
\* validation succeeded (it then stores the cleaned name), and on an invalid
\* name returns an error and leaves the table as it was
C29_DisplayName ==
  [][ pf.pc = "idle" =>
        /\ pf'.validation.valid =>
             /\ pf'.validation.cleaned # <<>>
             /\ \A i \in 1..Len(pf'.validation.cleaned) : ~IsSpace(pf'.validation.cleaned[i])
             /\ Len(pf'.validation.cleaned) <= 15
        /\ pf'.profiles # pf.profiles =>
             /\ pf'.validation.valid
             /\ \E p \in pf'.profiles :
                  p.id = pf'.userId /\ p.display_name = pf'.validation.cleaned
        /\ ~pf'.validation.valid =>
             /\ ~pf'.result.success
             /\ pf'.result.error # "none"
             /\ pf'.profiles = pf.profiles ]_vars

\* a name of more than 15 characters, whitespace included, was accepted and
\* stored as its 15 letters
C29_Witness ==
  /\ pf.pc = "done"
  /\ pf.validation.valid
  /\ pf.result.success
  /\ Len(pf.validation.cleaned) = 15
  /\ Len(pf.displayName) > 15
  /\ \E p \in pf.profiles : p.id = pf.userId /\ p.display_name = pf.validation.cleaned

\* the reviews run r is working through
InReviewLoop(r) == run[r].pc \in {"dedup", "transform", "write"}

\* C30: every review that is at the duplicate check, the transformer or the
\* writer has a rating of at most the threshold and, when the script's window
\* is not zero, a publish date inside the window; on the TripAdvisor path and
\* on the Google fallback path
C30_OnlyFilteredReviews ==
  \A r \in Runs :
    InReviewLoop(r) =>
      \A j \in 1..Len(run[r].reviews) :
        /\ run[r].reviews[j].source \in {"tripadvisor", "google"}
        /\ run[r].reviews[j].rating <= MAX_REVIEW_RATING
        /\ MaxReviewAgeDays(run[r].script) # 0
             => run[r].reviews[j].publishDate >= Now - MaxReviewAgeDays(run[r].script)

\* the general script writes the one review of the fallback provider's three
\* that is neither positive nor old
C30_Witness ==
  \E r \in Runs :
    /\ run[r].pc = "write"
    /\ run[r].script = "general"
    /\ run[r].reviews[1].source = "google"
    /\ Len(run[r].reviews) = 1
    /\ \E g \in 1..(NumReviews + 1) :
         GoogleReviews(CurrentHotel(r).google_place_id)[g].rating > MAX_REVIEW_RATING
    /\ \E g \in 1..(NumReviews + 1) :
         GoogleReviews(CurrentHotel(r).google_place_id)[g].publishTime
           < Now - MaxReviewAgeDays("general")

\* C31: whatever list a provider returns for a venue, at most
\* MAX_REVIEWS_PER_HOTEL (20) reviews go on to the review loop, each of them
\* once (no id twice), on the TripAdvisor path and on the Google path of
\* either script
C31_AtMostTwentyPerVenue ==
  fl.pc = "returned" =>
    /\ Len(fl.kept) <= 20
    /\ \A i, j \in 1..Len(fl.kept) : fl.kept[i].id = fl.kept[j].id => i = j

\* the Google adapter was given 21 negative recent reviews and 20 go on
C31_Witness ==
  /\ fl.pc = "returned" /\ fl.provider = "google"
  /\ Len(fl.input) = 21
  /\ \A j \in 1..21 : fl.input[j].rating <= MAX_REVIEW_RATING
  /\ Len(fl.kept) = 20

\* the started process has ended: after its summary, or with exit code 1
Terminal ==
  IF dc.pc = "idle" THEN Finished("A") ELSE dc.pc \in {"done", "aborted"}

\* C32: a run of an ingestion script or of the discovery script, over its
\* finite cohort and finite provider answers and whichever of its calls fail,
\* eventually ends (done, or aborted)
C32_Terminates == <>Terminal

\* an ingestion run ended after its summary although one of its calls failed
C32_Witness ==
  /\ run["A"].pc = "done"
  /\ faults.store + faults.provider > 0
  /\ run["A"].totalReviews > 0

\* the review run r is at has a row in the issue table
CurrentIsStored(r) ==
  \E j \in 1..Len(reports) :
    reports[j].external_review_id = run[r].reviews[run[r].k].id

\* C33: the duplicate check answers "exists" (the review is counted as skipped
\* and left) exactly when its lookup succeeded and found a row; when the lookup
\* fails the review is treated as new, whether or not a row exists: the run
\* stays at this review and goes on to the model call, which is followed by
\* the insert
C33_DedupFailsOpen ==
  [][\A r \in Runs :
       /\ (run[r].pc = "dedup" /\ Stepped(r))
            => /\ run'[r].skippedReviews = run[r].skippedReviews + 1
                    <=> (faults'.store = faults.store /\ CurrentIsStored(r))
               /\ run'[r].skippedReviews = run[r].skippedReviews
                    => /\ run'[r].pc = "transform"
                       /\ run'[r].i = run[r].i /\ run'[r].k = run[r].k
               /\ run'[r].skippedReviews \in
                    {run[r].skippedReviews, run[r].skippedReviews + 1}
       /\ (run[r].pc = "transform" /\ Stepped(r))
            => run'[r].pc \in {"write", "aborted"}
  ]_vars

\* the lookup of a stored review failed and the review is at the model call
C33_Witness ==
  \E r \in Runs :
    /\ run[r].pc = "transform"
    /\ faults.store = 1
    /\ CurrentIsStored(r)
    /\ run[r].skippedReviews = 0

\* C34: Google is queried for a hotel only straight after a TripAdvisor search
\* for that hotel that gave no location; after a search that matched, the
\* TripAdvisor fetch is never followed by the Google fetch: when it fails or
\* gives no review to process, the run leaves the hotel (next hotel, or the
\* end), and otherwise it goes through the TripAdvisor reviews
C34_NoFallbackAfterMatch ==
  [][\A r \in Runs :
       /\ (Stepped(r) /\ run'[r].pc = "fetchGoogle")
            => /\ run[r].pc = "search"
               /\ run'[r].i = run[r].i
               /\ run'[r].locationId = NullValue
       /\ (Stepped(r) /\ run[r].pc = "fetchTA")
            => \/ /\ run'[r].pc = "dedup"
                  /\ run'[r].i = run[r].i
                  /\ \A j \in 1..Len(run'[r].reviews) :
                       run'[r].reviews[j].source = "tripadvisor"
               \/ /\ run'[r].pc \in {"search", "fetchTA", "done"}
                  /\ run'[r].i > run[r].i
                  /\ run'[r].totalReviews = run[r].totalReviews
       /\ (Stepped(r) /\ run[r].locationId # NullValue /\ run'[r].i = run[r].i)
            => run'[r].pc # "fetchGoogle"
  ]_vars

\* the general script matched the first hotel on TripAdvisor, the review
\* fetch failed, and the run is at the second hotel without having seen a review
C34_Witness ==
  /\ run["A"].script = "general"
  /\ run["A"].pc = "search" /\ run["A"].i = 2
  /\ TaLocationOf(run["A"].dbHotels[1].name) # NullValue
  /\ faults.provider = 1
  /\ run["A"].totalReviews = 0

\* C35: a run that aborts on the validation of its configuration (or on the
\* prompt file) does so as its first step and changes nothing else: no provider
\* has been called, no cohort has been read, the store and the failure counts
\* are as before, and the run takes no further step; for the ingestion scripts
\* and for the discovery script
C35_AbortBeforeAnyCall ==
  [][/\ \A r \in Runs :
          /\ (run[r].pc = "idle" /\ run'[r].pc = "aborted")
               => /\ run'[r] = [InitRun(run[r].script) EXCEPT !.pc = "aborted"]
                  /\ run'[r].sinceCall = "start" /\ run'[r].dbHotels = <<>>
                  /\ reports' = reports /\ faults' = faults
          /\ (run[r].pc \in {"idle", "aborted"} /\ Stepped(r)) => run[r].pc = "idle"
          /\ (run[r].pc # "idle" /\ Stepped(r)) => run'[r].pc # "idle"
     /\ (dc.pc = "start" /\ dc'.pc = "aborted")
          => /\ dc' = [dc EXCEPT !.pc = "aborted"]
             /\ dc'.queried = <<>> /\ dc'.existingHotelIds = {}
             /\ dc'.hotels = dc.world.hotelsBefore
     /\ (dc.pc \in {"start", "aborted"} /\ dc' # dc) => dc.pc = "start"
  ]_vars

\* an ingestion run was aborted by the validation
C35_Witness ==
  /\ run["A"] = [InitRun(run["A"].script) EXCEPT !.pc = "aborted"]
  /\ reports = <<>> /\ faults = NoFaults

\* the external ids of the TripAdvisor reviews that both scripts process: those
\* of the top-hotels list's location that pass the filter of either script
SharedReviewIds ==
  {ConvertTripAdvisorToUnified(FilterTripAdvisor("general", TaReviews("155019")))[j].id :
     j \in 1..Len(FilterTripAdvisor("general", TaReviews("155019")))}
  \cap
  {ConvertTripAdvisorToUnified(FilterTripAdvisor("top", TaReviews("155019")))[j].id :
     j \in 1..Len(FilterTripAdvisor("top", TaReviews("155019")))}

RowsOf(externalId) ==
  {j \in 1..Len(reports) : reports[j].external_review_id = externalId}

\* run "B" is at the model call or the insert for a TripAdvisor review
BehindDedup ==
  /\ run["B"].pc \in {"transform", "write"}
  /\ run["B"].reviews[run["B"].k].source = "tripadvisor"

\* C36 as stated: with the two scripts run one after the other, the later one
\* makes no model call for a TripAdvisor review that the earlier one has
\* ingested.
C36_AsStated ==
  (~SameScript /\ BehindDedup) => ~CurrentIsStored("B")

\* C36 amended: the same, when the later script's lookup of the review has
\* succeeded; no review id ever has two rows; and when no call of either run
\* has failed, each review both scripts process ends with exactly one row and
\* the later script has counted it as a duplicate.
C36_SharedKeySpace ==
  ~SameScript =>
    /\ (BehindDedup /\ faults.store = 0) => ~CurrentIsStored("B")
    /\ \A j \in 1..Len(reports) : Cardinality(RowsOf(reports[j].external_review_id)) = 1
    /\ (BothRunsDone /\ faults = NoFaults)
         => /\ \A id \in SharedReviewIds : Cardinality(RowsOf(id)) = 1
            /\ run["B"].skippedReviews >= Cardinality(SharedReviewIds)
            /\ run["B"].successfulReports = run["B"].totalReviews - run["B"].skippedReviews

\* the general script ran after the top-hotels script, skipped the review the
\* two share and wrote the review of the fallback provider
C36_Witness ==
  /\ BothRunsDone /\ faults = NoFaults
  /\ run["A"].script = "top" /\ run["B"].script = "general"
  /\ SharedReviewIds # {}
  /\ run["B"].skippedReviews = 1
  /\ run["B"].successfulReports = 1
  /\ Len(reports) = 3

\* the only call that failed was an insert of run "A"
OnlyAnInsertOfAFailed ==
  /\ Finished("A") /\ run["A"].pc = "done"
  /\ faults = [store |-> 1, provider |-> 0]
  /\ run["A"].successfulReports < run["A"].totalReviews - run["A"].skippedReviews

\* C37: when an insert of the first run failed, nothing records the review: the
\* store holds only the rows of the inserts that succeeded, and a second run of
\* the same script over the same provider data skips exactly the reviews that
\* have a row, passes the duplicate check for the one that has none, calls the
\* transformer for it and inserts it, so that every review has its row
C37_FailedInsertRetriedNextRun ==
  (SameScript /\ OnlyAnInsertOfAFailed) =>
    /\ run["B"].pc = "idle" => Len(reports) = run["A"].successfulReports
    /\ (run["B"].pc \in {"transform", "write"}) => ~CurrentIsStored("B")
    /\ run["B"].pc = "done" =>
         /\ run["B"].totalReviews = run["A"].totalReviews
         /\ run["B"].skippedReviews = run["A"].successfulReports
         /\ run["B"].successfulReports = run["A"].totalReviews - run["A"].successfulReports
         /\ Len(reports) = run["A"].totalReviews

\* the second run has written the review whose insert failed in the first
C37_Witness ==
  /\ SameScript /\ OnlyAnInsertOfAFailed
  /\ run["B"].pc = "done"
  /\ run["B"].successfulReports = 1
  /\ run["B"].skippedReviews = 1
  /\ Len(reports) = 2

\* the rows written for reviews of TripAdvisor
TripAdvisorRows ==
  {j \in 1..Len(reports) : SubSeq(reports[j].external_review_id, 1, 1) = <<"tripadvisor_">>}

\* C38 as stated: with two hotels of the cohort resolved by the name search to
\* the same location (no provider call failed), every record of a review of
\* that location is under the name of the hotel processed first, and the run
\* never gets past the duplicate check with such a review at the second hotel.
C38_AsStated ==
  faults.provider = 0 =>
    /\ \A j \in TripAdvisorRows : reports[j].hotel_name = TwinCohort[1].name
    /\ run["A"].i = 2 => run["A"].pc \notin {"transform", "write"}

\* C38 amended: the same when no store call has failed either; and in every
\* case a review of the location has at most one record.  At the end of a run
\* without failures the location's reviews have their records under the first
\* hotel's name and the second hotel has counted each of them as a duplicate.
C38_FirstVenueGetsTheRecords ==
  /\ faults = NoFaults =>
       /\ \A j \in TripAdvisorRows : reports[j].hotel_name = TwinCohort[1].name
       /\ run["A"].i = 2 => run["A"].pc \notin {"transform", "write"}
       /\ run["A"].pc = "done" =>
            /\ Len(reports) = Len(FilterTripAdvisor("general", TaReviews("155019")))
            /\ TripAdvisorRows = 1..Len(reports)
            /\ run["A"].skippedReviews = Len(reports)
            /\ run["A"].successfulReports = Len(reports)
            /\ run["A"].totalReviews = 2 * Len(reports)
  /\ \A j, m \in TripAdvisorRows :
       reports[j].external_review_id = reports[m].external_review_id => j = m

\* the run is done without a failure: one record under the first hotel's name,
\* one duplicate counted at the second
C38_Witness ==
  /\ run["A"].pc = "done" /\ faults = NoFaults
  /\ run["A"].dbHotels = TwinCohort
  /\ Len(reports) = 1 /\ reports[1].hotel_name = "Grand Hyatt Melbourne"
  /\ run["A"].skippedReviews = 1 /\ run["A"].totalReviews = 2

\* C39: a discovery run never holds more than TARGET_HOTEL_COUNT +
\* MAX_RESULTS_PER_REQUEST - 1 newly discovered hotels: the hotels of one
\* search location are added in one step, at most MAX_RESULTS_PER_REQUEST of
\* them, and only from a state with fewer hotels than the target, so the
\* results of one location may pass the target and none is added after that
C39_OvershootBounded ==
  [][/\ Len(dc'.discoveredHotels) <= TARGET_HOTEL_COUNT + MAX_RESULTS_PER_REQUEST - 1
     /\ Len(dc'.discoveredHotels) - Len(dc.discoveredHotels) <= MAX_RESULTS_PER_REQUEST
     /\ Len(dc'.discoveredHotels) # Len(dc.discoveredHotels) =>
          /\ Len(dc.discoveredHotels) < TARGET_HOTEL_COUNT
          /\ dc'.queried = Append(dc.queried, dc.i)
     /\ dc'.queried # dc.queried => Len(dc.discoveredHotels) < TARGET_HOTEL_COUNT]_vars

\* the results of one search location took the run past the target
C39_Witness ==
  /\ dc.pc = "search"
  /\ Len(dc.discoveredHotels) > TARGET_HOTEL_COUNT
  /\ Len(dc.discoveredHotels) - FreshPerSearch < TARGET_HOTEL_COUNT
  /\ dc.queried # <<>> /\ dc.i = dc.queried[Len(dc.queried)] + 1

\* C40: in every view the application builds of the reports table, a row the
\* pipeline wrote shows the anonymous label as its reporter when is_anonymous
\* is true and the system reporter name when it is false; an anonymous row
\* never shows the system reporter name and an attributed row never shows
\* the anonymous label or the guest label
C40_ReporterShown ==
  \A joinFails, fallbackFails \in BOOLEAN, translations \in TranslationTables :
    \E view \in {FetchFullDataset(reports, joinFails, fallbackFails, translations)} :
      \A j \in 1..Len(view) :
        reports[j].source = "system" =>
          /\ reports[j].is_anonymous =>
               /\ view[j].reporterName = OrElse(translations.anonymous, "Anonymous")
               /\ view[j].reporterName # SYSTEM_REPORTER_NAME
          /\ ~reports[j].is_anonymous =>
               /\ view[j].reporterName = SYSTEM_REPORTER_NAME
               /\ view[j].reporterName # OrElse(translations.anonymous, "Anonymous")
               /\ view[j].reporterName # OrElse(translations.guestPrefix, "Guest")

\* the table holds an anonymous and an attributed row of the pipeline, and
\* the view built with the join shows one reporter name for each
C40_Witness ==
  \E view \in {FetchFullDataset(reports, FALSE, FALSE,
                                [anonymous |-> "Ni Ming", guestPrefix |-> NullValue])} :
    /\ \E j \in 1..Len(view) :
         reports[j].is_anonymous /\ view[j].reporterName = "Ni Ming"
    /\ \E j \in 1..Len(view) :
         ~reports[j].is_anonymous /\ view[j].reporterName = SYSTEM_REPORTER_NAME

====
